---- MODULE Spec2Model ----
(***************************************************************************)
(* LightTaskSheet: the client-side sheet engine (src/public/script.js) and *)
(* the endpoints of the server (src/server.js).                            *)
(*                                                                         *)
(* The live sheet (columns, rows), the undo stack, the selection and the   *)
(* drag state are the module-level singletons of script.js.  Every action  *)
(* below is one UI event handler, run to completion, the trailing          *)
(* renderTable() (which re-migrates and re-normalises the sheet) included. *)
(*                                                                         *)
(* Indexes are the 0-based indexes of the JavaScript source; At(s, i) is   *)
(* s[i].  A hierarchical number such as "1.1.2" is the sequence <<1,1,2>>, *)
(* the empty string is <<>>.  An empty cell ('') is EmptyCell; the clock   *)
(* reading nowISO() is a positive number.                                  *)
(***************************************************************************)
EXTENDS Integers, Sequences, FiniteSets, TLC

VARIABLES
    columns,      \* sheet.columns
    rows,         \* sheet.rows
    undoStack,    \* Undo.stack
    selected,     \* Selection.selected
    lastClicked,  \* Selection.lastClicked
    dragState,    \* dragState
    nextId,       \* the identifiers uid() has issued so far, plus one
    idLimit,      \* the number of identifiers uid() may issue in this run
    lastOp,       \* history: the handler that ran last, with its arguments
    before,       \* history: the sheet and the stack before that handler
    prior,        \* history: when it was undo(), the sheet one handler earlier
    run,          \* history: the deletes in a row, and the undos that followed
    evicted,      \* history: the rows of the records the stack has dropped
    user,         \* localStorage[USER_KEY]: the logged-in user, or Null
    stepsLeft,    \* the number of handlers that may still run, or Undefined
    data,         \* server: the files of DATA_DIR, by name
    issued,       \* server: the usernames it has signed a token for
    response      \* history: the last request, its answer, the files before

vars == <<columns, rows, undoStack, selected, lastClicked, dragState, nextId,
          idLimit, lastOp, before, prior, run, evicted, user,
          stepsLeft, data, issued, response>>

(***************************************************************************)
(* Bounds of the model.                                                    *)
(***************************************************************************)
MaxIds == 3
DragIds == 3
CollapseIds == 3
SelectIds == 3
DeleteIds == 3
DeclineIds == 2
MultiIds == 3
RedoIds == 3
StaleIds == 3
StaleSteps == 4
ImportIds == 2
ImportSteps == 3
StuckIds == 2
StuckSteps == 4
MaxPasswords == 2
MaxSheets == 2
ServerSteps == 5
RaceIds == 4
RaceSteps == 5
RedoSteps == 6
DupIds == 6
UndoRows == 23
MaxCols == 4
MaxRaw == 2
SheetIds == 3
MaxSteps == 3
SessionIds == 2
SessionSteps == 3

(***************************************************************************)
(* Program constants.                                                      *)
(***************************************************************************)
LIMIT == 20
PaletteSize == 8

Null == 0
EmptyCell == 0
Undefined == -1

(***************************************************************************)
(* JavaScript array primitives.                                            *)
(***************************************************************************)
Min(a, b) == IF a < b THEN a ELSE b
Max(a, b) == IF a > b THEN a ELSE b

At(s, i) == s[i + 1]

clamp(v, lo, hi) == Max(lo, Min(hi, v))

\* Array.prototype.splice's normalisation of its start argument
SpliceStart(s, start) ==
    IF start < 0 THEN Max(Len(s) + start, 0) ELSE Min(start, Len(s))

\* s.splice(start, 0, ...items): the array afterwards
SpliceIn(s, start, items) ==
    LET k == SpliceStart(s, start)
    IN  SubSeq(s, 1, k) \o items \o SubSeq(s, k + 1, Len(s))

\* s.splice(start, count): the array afterwards
SpliceOut(s, start, count) ==
    LET k == SpliceStart(s, start)
        c == Max(0, Min(count, Len(s) - k))
    IN  SubSeq(s, 1, k) \o SubSeq(s, k + c + 1, Len(s))

\* new Array(n).fill(v)
Fill(n, v) == [j \in 1..n |-> v]

Indexes(s) == 0..(Len(s) - 1)

(***************************************************************************)
(* Model: migration and normalisation.                                     *)
(***************************************************************************)
DefaultColumns ==
    << [name |-> "Timestamp", type |-> "date", color |-> 2],
       [name |-> "Task",      type |-> "text", color |-> 0],
       [name |-> "Notes",     type |-> "text", color |-> 1] >>

\* A document read from a file or from the server is not yet canonical.
\* A bare-string column 'Task' is [string |-> "Task"]; a column object is a
\* record that has some of the fields name, type, color.  A bare-list row
\* is [array |-> cells]; an indexed-object row is a record with the keys
\* "0", "1", ... and some of _id, _sub, _parent, _collapsed; any other row
\* is a record that has cells and some of id, sub, parent, collapsed.
Has(r, field) == field \in DOMAIN r

\* typeof c === 'string'
IsString(c) == Has(c, "string")

\* 'Column ' + (i + 1)
DefaultName(i) == "Column " \o ToString(i + 1)

\* PALETTE[i % PALETTE.length]
DefaultColor(i) == i % PaletteSize

\* the first branch maps every entry n to n || 'Column i' without looking
\* at its type; the second wraps a string as it is and fills the falsy
\* fields of an object
migrateColumnsIfNeeded(cols) ==
    IF Len(cols) > 0 /\ IsString(cols[1])
    THEN [k \in 1..Len(cols) |->
            [name  |-> IF IsString(cols[k])
                       THEN IF cols[k].string # "" THEN cols[k].string
                            ELSE DefaultName(k - 1)
                       ELSE cols[k],
             type  |-> "text",
             color |-> DefaultColor(k - 1)]]
    ELSE [k \in 1..Len(cols) |->
            IF IsString(cols[k])
            THEN [name |-> cols[k].string, type |-> "text",
                  color |-> DefaultColor(k - 1)]
            ELSE [name  |-> IF Has(cols[k], "name") /\ cols[k].name # ""
                            THEN cols[k].name ELSE DefaultName(k - 1),
                  type  |-> IF Has(cols[k], "type") /\ cols[k].type # ""
                            THEN cols[k].type ELSE "text",
                  color |-> IF Has(cols[k], "color")
                            THEN cols[k].color ELSE DefaultColor(k - 1)]]

\* Array.isArray(r)
IsArray(r) == Has(r, "array")

\* r.cells === undefined, for an r that is not an array
IsIndexed(r) == ~IsArray(r) /\ ~Has(r, "cells")

\* the cells of an indexed object: r[0], r[1], ... up to the first missing key
RECURSIVE IndexedCells(_, _)
IndexedCells(r, i) ==
    IF i < 1000 /\ Has(r, ToString(i))
    THEN <<r[ToString(i)]>> \o IndexedCells(r, i + 1)
    ELSE <<>>

\* r[field] || otherwise, for a field whose falsy value is Null, and !!r[field]
Or(r, field, otherwise) ==
    IF Has(r, field) /\ r[field] # Null THEN r[field] ELSE otherwise
Flag(r, field) == Has(r, field) /\ r[field]

\* the rows for which migrateRowsIfNeeded() calls uid()
NeedsId(r) ==
    \/ IsArray(r)
    \/ IsIndexed(r) /\ Or(r, "_id", Null) = Null
    \/ ~IsArray(r) /\ ~IsIndexed(r) /\ Or(r, "id", Null) = Null

\* the number of identifiers the migration of rs issues
Issued(rs) == Cardinality({k \in 1..Len(rs) : NeedsId(rs[k])})

\* every row is rebuilt as {id, cells, sub, parent, collapsed}; uid() gives
\* nid, nid + 1, ... to the rows that come without an identifier
migrateRowsIfNeeded(rs, nid) ==
    [k \in 1..Len(rs) |->
        LET r == rs[k]
            fresh == nid + Issued(SubSeq(rs, 1, k - 1))
        IN  IF IsArray(r)
            THEN [id |-> fresh, cells |-> r.array, sub |-> FALSE,
                  parent |-> Null, collapsed |-> FALSE]
            ELSE IF IsIndexed(r)
            THEN [id        |-> Or(r, "_id", fresh),
                  cells     |-> IndexedCells(r, 0),
                  sub       |-> Flag(r, "_sub"),
                  parent    |-> Or(r, "_parent", Null),
                  collapsed |-> Flag(r, "_collapsed")]
            ELSE [id        |-> Or(r, "id", fresh),
                  cells     |-> r.cells,
                  sub       |-> Flag(r, "sub"),
                  parent    |-> Or(r, "parent", Null),
                  collapsed |-> Flag(r, "collapsed")]]

\* normalizeRows() without its second loop: rows are padded, never truncated
normalizeRowsPadOnly(rs, cols) ==
    [i \in 1..Len(rs) |->
        [rs[i] EXCEPT !.cells = @ \o Fill(Max(0, Len(cols) - Len(@)), EmptyCell)]]

\* pad with '' or truncate every row's cells to the column count
normalizeRows(rs, cols) ==
    [i \in 1..Len(rs) |->
        [rs[i] EXCEPT !.cells =
            IF Len(@) < Len(cols)
            THEN @ \o Fill(Len(cols) - Len(@), EmptyCell)
            ELSE SubSeq(@, 1, Len(cols))]]

\* what renderTable() does to the sheet's rows before it draws
renderTable(rs, cols) ==
    normalizeRows(migrateRowsIfNeeded(rs, nextId), migrateColumnsIfNeeded(cols))

\* nowISO(): the clock advances with every identifier issued
nowISO == nextId

\* the cells of a freshly created row
NewCells == [j \in 1..Len(columns) |-> IF j = 1 THEN nowISO ELSE EmptyCell]

NewRow(id, sub, parent) ==
    [id |-> id, cells |-> NewCells, sub |-> sub, parent |-> parent,
     collapsed |-> FALSE]

(***************************************************************************)
(* Visibility projection.                                                  *)
(***************************************************************************)
\* collapsed[pid] of the map built from the non-sub rows (the last row wins)
CollapsedMap(rs, pid) ==
    LET is == {i \in 1..Len(rs) : ~rs[i].sub /\ rs[i].id = pid}
    IN  is # {} /\ rs[CHOOSE i \in is : \A j \in is : j <= i].collapsed

\* the rows the loops skip: r.sub && r.parent && collapsed[r.parent]
Hidden(rs, r) == r.sub /\ r.parent # Null /\ CollapsedMap(rs, r.parent)

\* mapping with a fault: the rows of collapsed parents are not filtered out
mappingAll(rs) == [k \in 1..Len(rs) |-> k - 1]

\* the sheet indexes of the visible rows, in order
mapping(rs) ==
    LET F[n \in 0..Len(rs)] ==
            IF n = 0 THEN <<>>
            ELSE IF Hidden(rs, rs[n]) THEN F[n - 1] ELSE Append(F[n - 1], n - 1)
    IN  F[Len(rs)]

(***************************************************************************)
(* Numbering (computeHierNumber).                                          *)
(***************************************************************************)
\* the rows that survive the visibility filter, in order
visible(rs) == [k \in 1..Len(mapping(rs)) |-> At(rs, mapping(rs)[k])]

\* childCount[pid] || 0
CountOf(childCount, pid) ==
    IF pid \in DOMAIN childCount THEN childCount[pid] ELSE 0

\* one turn of the loop over the visible rows: acc is [numbering, pnum, childCount]
NumberStep(acc, v) ==
    IF ~v.sub
    THEN [numbering  |-> Append(acc.numbering, <<acc.pnum + 1>>),
          pnum       |-> acc.pnum + 1,
          childCount |-> [p \in (DOMAIN acc.childCount) \cup {v.id} |->
                              IF p = v.id THEN 0 ELSE acc.childCount[p]]]
    ELSE LET parentNum == IF Len(acc.numbering) > 0
                          THEN acc.numbering[Len(acc.numbering)]
                          ELSE <<1>>
             c == CountOf(acc.childCount, v.parent) + 1
         IN  [numbering  |-> Append(acc.numbering, Append(parentNum, c)),
              pnum       |-> acc.pnum,
              childCount |-> [p \in (DOMAIN acc.childCount) \cup {v.parent} |->
                                  IF p = v.parent THEN c ELSE acc.childCount[p]]]

\* the numbering array computed along the visible rows
numbering(rs) ==
    LET vis == visible(rs)
        F[n \in 0..Len(vis)] ==
            IF n = 0
            THEN [numbering |-> <<>>, pnum |-> 0, childCount |-> <<>>]
            ELSE NumberStep(F[n - 1], vis[n])
    IN  F[Len(vis)].numbering

\* the visible index of sheet index rowIndex, or -1
VisibleIndexOf(rs, rowIndex) ==
    LET m == mapping(rs)
        ks == {k \in 1..Len(m) : m[k] = rowIndex}
    IN  IF ks = {} THEN -1 ELSE (CHOOSE k \in ks : TRUE) - 1

computeHierNumber(rs, rowIndex) ==
    LET vi == VisibleIndexOf(rs, rowIndex)
    IN  IF vi = -1 THEN <<>>
        ELSE IF At(numbering(rs), vi) # <<>> THEN At(numbering(rs), vi)
        ELSE <<vi + 1>>

\* Map visible row index to sheet index; Undefined stands for null
mapVisibleRowToSheetIndex(rs, visibleIdx) ==
    IF visibleIdx \in Indexes(mapping(rs)) THEN At(mapping(rs), visibleIdx)
    ELSE Undefined

(***************************************************************************)
(* Row groups.                                                             *)
(***************************************************************************)
\* the number of rows from index i on that are sub-rows of pid, in one run
RECURSIVE SubRun(_, _, _)
SubRun(rs, i, pid) ==
    IF i < Len(rs) /\ At(rs, i).sub /\ At(rs, i).parent = pid
    THEN 1 + SubRun(rs, i + 1, pid)
    ELSE 0

\* RemoveSubs with a fault: each sub-row is recorded with the index it had in
\* the array before the delete began
RemoveSubsOriginalIndex(rs, i, pid, items) ==
    LET n == SubRun(rs, i, pid)
    IN  [rows  |-> SpliceOut(rs, i, n),
         items |-> items \o [k \in 1..n |-> [index |-> i + k, row |-> At(rs, i + k - 1)]]]

\* while(i < rows.length && rows[i].sub && rows[i].parent === pid) { push; splice }
RemoveSubs(rs, i, pid, items) ==
    LET n == SubRun(rs, i, pid)
    IN  [rows  |-> SpliceOut(rs, i, n),
         items |-> items \o [k \in 1..n |-> [index |-> i, row |-> At(rs, i + k - 1)]]]

\* the scan of deleteRowByIndex for the rows whose id is `id`
RECURSIVE DeleteScan(_, _, _, _)
DeleteScan(rs, i, id, items) ==
    IF i >= Len(rs) THEN [rows |-> rs, items |-> items]
    ELSE IF At(rs, i).id = id
         THEN LET r == RemoveSubs(SpliceOut(rs, i, 1), i, id,
                                  Append(items, [index |-> i, row |-> At(rs, i)]))
              IN  DeleteScan(r.rows, i, id, r.items)
         ELSE DeleteScan(rs, i + 1, id, items)

\* the scan of deleteSelected with a fault: the sub-rows of a removed row stay
RECURSIVE DeleteSelectedScanRowsOnly(_, _, _, _)
DeleteSelectedScanRowsOnly(rs, i, selectedIds, items) ==
    IF i >= Len(rs) THEN [rows |-> rs, items |-> items]
    ELSE IF At(rs, i).id \in selectedIds
         THEN DeleteSelectedScanRowsOnly(SpliceOut(rs, i, 1), i, selectedIds,
                                         Append(items, [index |-> i, row |-> At(rs, i)]))
         ELSE DeleteSelectedScanRowsOnly(rs, i + 1, selectedIds, items)

\* the scan of deleteSelected for the rows whose id is selected
RECURSIVE DeleteSelectedScan(_, _, _, _)
DeleteSelectedScan(rs, i, selectedIds, items) ==
    IF i >= Len(rs) THEN [rows |-> rs, items |-> items]
    ELSE IF At(rs, i).id \in selectedIds
         THEN LET r == RemoveSubs(SpliceOut(rs, i, 1), i, At(rs, i).id,
                                  Append(items, [index |-> i, row |-> At(rs, i)]))
              IN  DeleteSelectedScan(r.rows, i, selectedIds, r.items)
         ELSE DeleteSelectedScan(rs, i + 1, selectedIds, items)

(***************************************************************************)
(* Undo stack.                                                             *)
(***************************************************************************)
\* Undo.push with a fault: the stack is never trimmed
UndoPushUnbounded(stack, action) == Append(stack, action)

\* Undo.push: push, then drop the oldest record when over LIMIT
UndoPush(stack, action) ==
    LET s == Append(stack, action)
    IN  IF Len(s) > LIMIT THEN Tail(s) ELSE s

\* the loop of Undo.undo over a delete-rows record's items
RECURSIVE Restore(_, _)
Restore(rs, items) ==
    IF items = <<>> THEN rs
    ELSE Restore(SpliceIn(rs, Head(items).index, <<Head(items).row>>), Tail(items))

OK == 200
ServerError == 500
Unauthorized == 401
NetworkError == 0

(***************************************************************************)
(* The server (src/server.js): the files of the data directory, the tokens *)
(* it has signed, and one action per endpoint, request and response in one *)
(* step (the handlers are synchronous).  A JSON object is a function from  *)
(* its keys; a user's entry {password: hash} and a sheet {columns, rows}   *)
(* are such objects.  Tokens are taken not to expire within a run.         *)
(***************************************************************************)
BadRequest == 400
Forbidden == 403
NotFound == 404

\* path.join(DATA_DIR, 'users.json')
USERS_FILE == "users.json"

\* path.join(DATA_DIR, username + '.json')
UserFile(username) == username \o ".json"

\* the names a client registers or asks for
Usernames == {"admin", "users", "ann"}

\* the passwords a client sends
Passwords == 1..MaxPasswords

\* the sheets a client posts
Sheets == {("columns" :> [value |-> 0]) @@ ("rows" :> [value |-> v]) : v \in 1..MaxSheets}

\* bcrypt.hashSync(password, 10) and bcrypt.compareSync(password, hash)
hashSync(password) == [bcrypt |-> password]
compareSync(password, hash) == Has(hash, "bcrypt") /\ hash.bcrypt = password

\* the data directory after startup: users.json with the default admin
InitialData == USERS_FILE :> ("admin" :> [password |-> hashSync(1)])

\* fs.writeFileSync(file, JSON.stringify(content)), fs.unlinkSync(file)
writeFileSync(d, file, content) ==
    [f \in DOMAIN d \cup {file} |-> IF f = file THEN content ELSE d[f]]
unlinkSync(d, file) == [f \in DOMAIN d \ {file} |-> d[f]]

\* loadUsers(): {} when users.json is missing
loadUsers(d) == IF USERS_FILE \in DOMAIN d THEN d[USERS_FILE] ELSE [k \in {} |-> 0]

\* delete users[username]
Without(users, username) == [k \in DOMAIN users \ {username} |-> users[k]]

\* the Authorization header of a request: none, a token that jwt.verify
\* rejects, or a token the server signed for username
NoHeader == [header |-> FALSE, signed |-> FALSE, username |-> ""]
Rejected == [header |-> TRUE, signed |-> FALSE, username |-> "admin"]
Signed(username) == [header |-> TRUE, signed |-> TRUE, username |-> username]
Tokens == {NoHeader, Rejected} \cup {Signed(u) : u \in issued}

\* auth: 401 without the header and for a token jwt.verify rejects,
\* otherwise req.user = dec.username and next()
auth(token) ==
    IF ~token.header THEN Unauthorized
    ELSE IF ~token.signed THEN Unauthorized
    ELSE OK

\* JSON null
JNull == [null |-> TRUE]

NoResponse == [op |-> "", token |-> NoHeader, request |-> [none |-> TRUE],
               status |-> OK, body |-> [none |-> TRUE], data |-> InitialData,
               issued |-> {}, saved |-> [u \in Usernames |-> JNull]]

(***************************************************************************)
(* State after construction (initApp on the default sheet).                *)
(***************************************************************************)
NoSnapshot == [valid |-> FALSE, columns |-> <<>>, rows |-> <<>>, undoStack |-> <<>>,
               selected |-> {}, lastClicked |-> Null]
Snapshot == [valid |-> TRUE, columns |-> columns, rows |-> rows,
             undoStack |-> undoStack, selected |-> selected,
             lastClicked |-> lastClicked]

\* the identifiers of the rows held by an undo record
RecordIds(act) == {act.items[k].row.id : k \in 1..Len(act.items)}

\* the rows lost when a record is pushed on stack: those of the record shifted out
Shifted(stack) == IF Len(stack) >= LIMIT THEN RecordIds(Head(stack)) ELSE {}

NoRun == [deletes |-> 0, undos |-> 0]

\* the history every handler leaves: its name and arguments, the state it
\* started from and, for undo(), the handler and the state before that
Note(name, index, arg) ==
    /\ lastOp' = [op |-> name, index |-> index, arg |-> arg,
                  prev |-> IF name = "undo" THEN lastOp.op ELSE ""]
    /\ before' = Snapshot
    /\ prior' = IF name = "undo" THEN before ELSE NoSnapshot
    /\ run' = IF name \in {"deleteRowByIndex", "deleteSelected"} /\ arg = 1
              THEN [deletes |-> IF run.undos = 0 THEN run.deletes + 1 ELSE 1,
                    undos |-> 0]
              ELSE IF name = "undo"
              THEN IF undoStack = <<>> THEN run ELSE [run EXCEPT !.undos = @ + 1]
              ELSE NoRun
    /\ stepsLeft' = IF stepsLeft > 0 THEN stepsLeft - 1 ELSE stepsLeft
    /\ UNCHANGED <<data, issued, response>>

\* dragState = null; listening tells whether the mousemove and mouseup
\* listeners of startDragRow are attached to the document
NoDrag == [active |-> FALSE, listening |-> FALSE, sourceIndex |-> Undefined,
           sourceRow |-> Null, targetIndex |-> Undefined]

Idle == ~dragState.listening

\* the sheet indexes of the rows drawn in the table: the rows that have
\* buttons, a drag handle, a click listener and a context menu
Drawn == {mapping(rows)[k] : k \in 1..Len(mapping(rows))}

\* uid() can issue n more identifiers
CanIssue(n) == nextId + n - 1 <= idLimit

InitSheet ==
    /\ columns = DefaultColumns
    /\ rows = << [id |-> 1, cells |-> <<1, EmptyCell, EmptyCell>>, sub |-> FALSE,
                  parent |-> Null, collapsed |-> FALSE] >>
    /\ undoStack = <<>>
    /\ selected = {}
    /\ lastClicked = Null
    /\ dragState = NoDrag
    /\ nextId = 2
    /\ lastOp = [op |-> "init", index |-> Undefined, arg |-> Undefined, prev |-> ""]
    /\ before = NoSnapshot
    /\ prior = NoSnapshot
    /\ run = NoRun
    /\ evicted = {}
    /\ user = Null
    /\ data = InitialData
    /\ issued = {}
    /\ response = NoResponse

(***************************************************************************)
(* Row operations.                                                         *)
(***************************************************************************)
\* addRow(): the Add Row button, or the keyboard shortcut at any time
addRow ==
    /\ CanIssue(1)
    /\ rows' = renderTable(Append(rows, NewRow(nextId, FALSE, Null)), columns)
    /\ nextId' = nextId + 1
    /\ UNCHANGED <<idLimit, user, evicted>>
    /\ Note("addRow", Undefined, Undefined)
    /\ UNCHANGED <<columns, undoStack, selected, lastClicked, dragState>>

\* addSubRow(parentIndex): offered on drawn non-sub rows only
\* addSubRow with a fault: an index past the rows is taken for the nearest row
addSubRowNearest(parentIndex) ==
    LET parent == clamp(parentIndex, 0, Len(rows) - 1)
    IN  /\ Idle
        /\ CanIssue(1)
        /\ parent \in Drawn
        /\ ~At(rows, parent).sub
        /\ rows' = renderTable(
                     SpliceIn(rows, parent + 1,
                              <<NewRow(nextId, TRUE, At(rows, parent).id)>>),
                     columns)
        /\ nextId' = nextId + 1
        /\ UNCHANGED <<idLimit, user, evicted>>
        /\ Note("addSubRow", parentIndex, Undefined)
        /\ UNCHANGED <<columns, undoStack, selected, lastClicked, dragState>>

\* addSubRow with a fault: the new row goes after the parent's sub-rows
addSubRowAfterGroup(parentIndex) ==
    /\ Idle
    /\ IF parentIndex \notin Indexes(rows)
       THEN UNCHANGED <<rows, nextId>>
       ELSE /\ CanIssue(1)
            /\ parentIndex \in Drawn
            /\ ~At(rows, parentIndex).sub
            /\ LET subs == {j \in Indexes(rows) :
                               /\ j > parentIndex
                               /\ \A k \in (parentIndex + 1)..j : At(rows, k).sub}
               IN  rows' = renderTable(
                             SpliceIn(rows, parentIndex + 1 + Cardinality(subs),
                                      <<NewRow(nextId, TRUE, At(rows, parentIndex).id)>>),
                             columns)
            /\ nextId' = nextId + 1
    /\ UNCHANGED <<idLimit, user, evicted>>
    /\ Note("addSubRow", parentIndex, Undefined)
    /\ UNCHANGED <<columns, undoStack, selected, lastClicked, dragState>>

\* addSubRow(parentIndex): the button of a drawn non-sub row; when
\* sheet.rows[parentIndex] is undefined the function returns at once
addSubRow(parentIndex) ==
    /\ Idle
    /\ IF parentIndex \notin Indexes(rows)
       THEN UNCHANGED <<rows, nextId>>
       ELSE /\ CanIssue(1)
            /\ parentIndex \in Drawn
            /\ ~At(rows, parentIndex).sub
            /\ rows' = renderTable(
                         SpliceIn(rows, parentIndex + 1,
                                  <<NewRow(nextId, TRUE, At(rows, parentIndex).id)>>),
                         columns)
            /\ nextId' = nextId + 1
    /\ UNCHANGED <<idLimit, user, evicted>>
    /\ Note("addSubRow", parentIndex, Undefined)
    /\ UNCHANGED <<columns, undoStack, selected, lastClicked, dragState>>

\* insertRowAt(index): Insert Row Above (index) / Below (index + 1) of a drawn row
insertRowAt(index) ==
    /\ Idle
    /\ CanIssue(1)
    /\ \E rowIndex \in Drawn : index \in {rowIndex, rowIndex + 1}
    /\ rows' = renderTable(SpliceIn(rows, index, <<NewRow(nextId, FALSE, Null)>>),
                           columns)
    /\ nextId' = nextId + 1
    /\ UNCHANGED <<idLimit, user, evicted>>
    /\ Note("insertRowAt", index, Undefined)
    /\ UNCHANGED <<columns, undoStack, selected, lastClicked, dragState>>

\* the sheet after deleteRowByIndex(index) with the prompt accepted
DeleteRowResult(rs, index) ==
    IF ~At(rs, index).sub
    THEN DeleteScan(rs, 0, At(rs, index).id, <<>>)
    ELSE [rows  |-> SpliceOut(rs, index, 1),
          items |-> << [index |-> index, row |-> At(rs, index)] >>]

\* deleteRowByIndex(index); ok is the answer of confirm()
deleteRowByIndex(index, ok) ==
    /\ Idle
    /\ index \in Indexes(rows) => index \in Drawn
    /\ IF index \notin Indexes(rows)
       THEN /\ UNCHANGED <<rows, undoStack, evicted>>
            /\ Note("deleteRowByIndex", index, Undefined)
       ELSE IF ok
       THEN LET r == DeleteRowResult(rows, index)
            IN  /\ rows' = renderTable(r.rows, columns)
                /\ undoStack' = UndoPush(undoStack,
                                    [type |-> "delete-rows", items |-> r.items])
                /\ evicted' = evicted \cup Shifted(undoStack)
                /\ Note("deleteRowByIndex", index, 1)
       ELSE /\ UNCHANGED <<rows, undoStack, evicted>>
            /\ Note("deleteRowByIndex", index, 0)
    /\ UNCHANGED <<columns, selected, lastClicked, dragState, nextId, idLimit, user>>

\* JSON.parse(JSON.stringify(row)): a deep copy of a canonical row
JSONClone(r) ==
    [id |-> r.id, cells |-> [j \in 1..Len(r.cells) |-> r.cells[j]], sub |-> r.sub,
     parent |-> r.parent, collapsed |-> r.collapsed]

\* the loop of duplicateRow over the rows after the original: a sub-row of
\* rowId is cloned to addPos, the first non-sub row ends the loop
RECURSIVE DuplicateSubs(_, _, _, _, _, _)
DuplicateSubs(rs, i, addPos, rowId, copyId, nid) ==
    IF i >= Len(rs) THEN rs
    ELSE IF At(rs, i).sub /\ At(rs, i).parent = rowId
         THEN DuplicateSubs(
                 SpliceIn(rs, addPos,
                          <<[JSONClone(At(rs, i)) EXCEPT !.id = nid, !.parent = copyId]>>),
                 i + 1, addPos + 1, rowId, copyId, nid + 1)
         ELSE IF ~At(rs, i).sub THEN rs
         ELSE DuplicateSubs(rs, i + 1, addPos, rowId, copyId, nid)

\* DuplicateResult with a fault: the copied sub-rows keep the original's id
\* as their parent
DuplicateResultSameParent(rs, index, id1) ==
    LET row == At(rs, index)
        copy == [JSONClone(row) EXCEPT !.id = id1]
    IN  IF ~row.sub
        THEN LET n == SubRun(rs, index + 1, row.id)
                 subs == [k \in 1..n |->
                             [JSONClone(At(rs, index + k)) EXCEPT !.id = id1 + k]]
             IN  SpliceIn(rs, index + 1 + n, <<copy>> \o subs)
        ELSE SpliceIn(rs, index + 1, <<copy>>)

\* the rows duplicateRow(index) leaves when uid() returns id1, id1 + 1, ...
DuplicateResult(rs, index, id1) ==
    LET row == At(rs, index)
        copy == [JSONClone(row) EXCEPT !.id = id1]
    IN  IF ~row.sub
        THEN LET insertAt == index + 1 + SubRun(rs, index + 1, row.id)
             IN  DuplicateSubs(SpliceIn(rs, insertAt, <<copy>>), index + 1,
                               insertAt + 1, row.id, copy.id, id1 + 1)
        ELSE SpliceIn(rs, index + 1, <<[JSONClone(row) EXCEPT !.id = id1]>>)

\* the number of identifiers duplicateRow(index) draws
DuplicateIds(rs, index) == Len(DuplicateResult(rs, index, nextId)) - Len(rs)

duplicateRow(index) ==
    /\ Idle
    /\ IF index \notin Indexes(rows)
       THEN UNCHANGED <<rows, nextId>>
       ELSE /\ CanIssue(1)
            /\ index \in Drawn
            /\ CanIssue(DuplicateIds(rows, index))
            /\ rows' = renderTable(DuplicateResult(rows, index, nextId), columns)
            /\ nextId' = nextId + DuplicateIds(rows, index)
    /\ UNCHANGED <<idLimit, user, evicted>>
    /\ Note("duplicateRow", index, Undefined)
    /\ UNCHANGED <<columns, undoStack, selected, lastClicked, dragState>>

\* deleteSelected with a fault: the selection is cleared before the prompt
deleteSelectedClearsFirst(ok) ==
    /\ Idle
    /\ Drawn # {}
    /\ selected' = {}
    /\ lastClicked' = Null
    /\ IF selected # {} /\ ok
       THEN LET r == DeleteSelectedScan(rows, 0, selected, <<>>)
            IN  /\ rows' = renderTable(r.rows, columns)
                /\ undoStack' = UndoPush(undoStack,
                                    [type |-> "delete-rows", items |-> r.items])
                /\ evicted' = evicted \cup Shifted(undoStack)
                /\ Note("deleteSelected", Undefined, 1)
       ELSE /\ UNCHANGED <<rows, undoStack, evicted>>
            /\ Note("deleteSelected", Undefined, IF selected = {} THEN Undefined ELSE 0)
    /\ UNCHANGED <<columns, dragState, nextId, idLimit, user>>

\* deleteSelected(); ok is the answer of confirm(); with nothing selected
\* there is no prompt
deleteSelected(ok) ==
    /\ Idle
    /\ Drawn # {}
    /\ IF selected # {} /\ ok
       THEN LET r == DeleteSelectedScan(rows, 0, selected, <<>>)
            IN  /\ rows' = renderTable(r.rows, columns)
                /\ undoStack' = UndoPush(undoStack,
                                    [type |-> "delete-rows", items |-> r.items])
                /\ selected' = {}
                /\ lastClicked' = Null
                /\ evicted' = evicted \cup Shifted(undoStack)
                /\ Note("deleteSelected", Undefined, 1)
       ELSE /\ UNCHANGED <<rows, undoStack, selected, lastClicked, evicted>>
            /\ Note("deleteSelected", Undefined, IF selected = {} THEN Undefined ELSE 0)
    /\ UNCHANGED <<columns, dragState, nextId, idLimit, user>>

(***************************************************************************)
(* Undo.                                                                   *)
(***************************************************************************)
\* the sheet after Undo.undo() applied record act
UndoApply(act) ==
    IF act.type = "delete-rows"
    THEN [columns |-> columns,
          rows    |-> renderTable(normalizeRows(Restore(rows, act.items), columns),
                                  columns)]
    ELSE [columns |-> migrateColumnsIfNeeded(act.prev.columns),
          rows    |-> renderTable(act.prev.rows, act.prev.columns)]

\* Undo.undo() with a fault: the record is read but stays on the stack
undoKeepsRecord ==
    /\ IF undoStack = <<>>
       THEN UNCHANGED <<columns, rows, undoStack>>
       ELSE LET act == undoStack[Len(undoStack)]
            IN  /\ undoStack' = undoStack
                /\ columns' = UndoApply(act).columns
                /\ rows' = UndoApply(act).rows
    /\ Note("undo", Undefined, Len(undoStack))
    /\ UNCHANGED <<selected, lastClicked, dragState, nextId, idLimit, user, evicted>>

\* Undo.undo(): the keyboard shortcut at any time (the toast's Undo button too)
undo ==
    /\ IF undoStack = <<>>
       THEN UNCHANGED <<columns, rows, undoStack>>
       ELSE LET act == undoStack[Len(undoStack)]
            IN  /\ undoStack' = SubSeq(undoStack, 1, Len(undoStack) - 1)
                /\ columns' = UndoApply(act).columns
                /\ rows' = UndoApply(act).rows
    /\ Note("undo", Undefined, Len(undoStack))
    /\ UNCHANGED <<selected, lastClicked, dragState, nextId, idLimit, user, evicted>>

(***************************************************************************)
(* Selection.toggle.                                                       *)
(***************************************************************************)
\* ids.indexOf(id) over sheet.rows.map(r => r.id)
IndexOfId(rs, id) ==
    LET is == {i \in Indexes(rs) : At(rs, i).id = id}
    IN  IF is = {} THEN -1 ELSE CHOOSE i \in is : \A j \in is : i <= j

\* Selection.toggle with a fault: a shift-click selects the drawn rows of
\* the range only
SelectionToggleVisible(id, shift, meta) ==
    IF shift /\ lastClicked # Null
    THEN LET a == IndexOfId(rows, lastClicked)
             b == IndexOfId(rows, id)
         IN  IF a = -1 \/ b = -1
             THEN [selected |-> selected \cup {id}, lastClicked |-> id]
             ELSE [selected |-> selected \cup
                                  {At(rows, i).id :
                                     i \in {j \in Min(a, b)..Max(a, b) :
                                               ~Hidden(rows, At(rows, j))}},
                   lastClicked |-> lastClicked]
    ELSE IF meta
         THEN [selected |-> IF id \in selected THEN selected \ {id}
                            ELSE selected \cup {id},
               lastClicked |-> id]
         ELSE [selected |-> {id}, lastClicked |-> id]

\* Selection.toggle with a fault: a plain click adds to the selection
SelectionTogglePlainAdds(id, shift, meta) ==
    IF shift /\ lastClicked # Null
    THEN LET a == IndexOfId(rows, lastClicked)
             b == IndexOfId(rows, id)
         IN  IF a = -1 \/ b = -1
             THEN [selected |-> selected \cup {id}, lastClicked |-> id]
             ELSE [selected |-> selected \cup
                                  {At(rows, i).id : i \in Min(a, b)..Max(a, b)},
                   lastClicked |-> lastClicked]
    ELSE IF meta
         THEN [selected |-> IF id \in selected THEN selected \ {id}
                            ELSE selected \cup {id},
               lastClicked |-> id]
         ELSE [selected |-> selected \cup {id}, lastClicked |-> id]

\* Selection.toggle(id, shift, meta): [selected, lastClicked] afterwards
SelectionToggle(id, shift, meta) ==
    IF shift /\ lastClicked # Null
    THEN LET a == IndexOfId(rows, lastClicked)
             b == IndexOfId(rows, id)
         IN  IF a = -1 \/ b = -1
             THEN [selected |-> selected \cup {id}, lastClicked |-> id]
             ELSE [selected |-> selected \cup
                                  {At(rows, i).id : i \in Min(a, b)..Max(a, b)},
                   lastClicked |-> lastClicked]
    ELSE IF meta
         THEN [selected |-> IF id \in selected THEN selected \ {id}
                            ELSE selected \cup {id},
               lastClicked |-> id]
         ELSE [selected |-> {id}, lastClicked |-> id]

(***************************************************************************)
(* Collapse / expand.                                                      *)
(***************************************************************************)
\* the collapse button of a drawn non-sub row; the click then reaches the
\* row's own click listener, which runs Selection.toggle with the modifier keys
toggleCollapse(index, shift, meta) ==
    /\ Idle
    /\ index \in Drawn
    /\ ~At(rows, index).sub
    /\ rows' = renderTable(
                 [rows EXCEPT ![index + 1].collapsed = ~@], columns)
    /\ LET r == SelectionToggle(At(rows, index).id, shift, meta)
       IN  /\ selected' = r.selected
           /\ lastClicked' = r.lastClicked
    /\ Note("toggleCollapse", index, Undefined)
    /\ UNCHANGED <<columns, undoStack, dragState, nextId, idLimit, user, evicted>>

\* Collapse All / Expand All: every non-sub row's flag is set to flag
setAllCollapsed(flag) ==
    /\ flag \/ Idle
    /\ rows' = renderTable(
                 [i \in 1..Len(rows) |->
                     IF rows[i].sub THEN rows[i]
                     ELSE [rows[i] EXCEPT !.collapsed = flag]],
                 columns)
    /\ Note("setAllCollapsed", Undefined, IF flag THEN 1 ELSE 0)
    /\ UNCHANGED <<columns, undoStack, selected, lastClicked, dragState, nextId, idLimit, user, evicted>>

(***************************************************************************)
(* Column operations.                                                      *)
(***************************************************************************)
\* pickColorForNewColumn(): the first unused palette colour, else any colour
pickColorForNewColumn(cols) ==
    LET used == {cols[i].color : i \in 1..Len(cols)}
        free == (0..(PaletteSize - 1)) \ used
    IN  IF free # {} THEN {CHOOSE c \in free : \A d \in free : c <= d}
        ELSE 0..(PaletteSize - 1)

\* insertColumnAt with a fault: the new cell is pushed at the end of each row
insertColumnAtPushesCell(index, named) ==
    /\ index \in 0..Len(columns)
    /\ Idle \/ index = Len(columns)
    /\ Len(columns) < MaxCols
    /\ IF named
       THEN \E color \in pickColorForNewColumn(columns) :
              LET cols == SpliceIn(columns, index,
                              <<[name |-> "Column", type |-> "text", color |-> color]>>)
                  rs == [i \in 1..Len(rows) |->
                            [rows[i] EXCEPT !.cells = Append(@, EmptyCell)]]
              IN  /\ columns' = migrateColumnsIfNeeded(cols)
                  /\ rows' = renderTable(rs, cols)
                  /\ Note("insertColumnAt", index, 1)
       ELSE /\ UNCHANGED <<columns, rows>>
            /\ Note("insertColumnAt", index, 0)
    /\ UNCHANGED <<undoStack, selected, lastClicked, dragState, nextId, idLimit, user, evicted>>

\* insertColumnAt(index); named is FALSE when the name prompt is cancelled
insertColumnAt(index, named) ==
    /\ index \in 0..Len(columns)
    /\ Idle \/ index = Len(columns)
    /\ Len(columns) < MaxCols
    /\ IF named
       THEN \E color \in pickColorForNewColumn(columns) :
              LET cols == SpliceIn(columns, index,
                              <<[name |-> "Column", type |-> "text", color |-> color]>>)
                  rs == [i \in 1..Len(rows) |->
                            [rows[i] EXCEPT !.cells = SpliceIn(@, index, <<EmptyCell>>)]]
              IN  /\ columns' = migrateColumnsIfNeeded(cols)
                  /\ rows' = renderTable(rs, cols)
                  /\ Note("insertColumnAt", index, 1)
       ELSE /\ UNCHANGED <<columns, rows>>
            /\ Note("insertColumnAt", index, 0)
    /\ UNCHANGED <<undoStack, selected, lastClicked, dragState, nextId, idLimit, user, evicted>>

\* deleteColumn(index), reached through the header menu's confirm
deleteColumn(index) ==
    /\ Idle
    /\ index \in Indexes(columns)
    /\ IF Len(columns) <= 1
       THEN /\ UNCHANGED <<columns, rows>>
            /\ Note("deleteColumn", index, 0)
       ELSE LET cols == SpliceOut(columns, index, 1)
                rs == [i \in 1..Len(rows) |->
                          [rows[i] EXCEPT !.cells = SpliceOut(@, index, 1)]]
            IN  /\ columns' = migrateColumnsIfNeeded(cols)
                /\ rows' = renderTable(rs, cols)
                /\ Note("deleteColumn", index, 1)
    /\ UNCHANGED <<undoStack, selected, lastClicked, dragState, nextId, idLimit, user, evicted>>

(***************************************************************************)
(* Row clicks.                                                             *)
(***************************************************************************)
\* the modifier keys of a click as one number: shift counts 2, ctrl/cmd 1
Modifiers(shift, meta) == (IF shift THEN 2 ELSE 0) + (IF meta THEN 1 ELSE 0)

\* a click on drawn row `index`, with the modifier keys held
toggle(index, shift, meta) ==
    /\ Idle
    /\ index \in Drawn
    /\ LET r == SelectionToggle(At(rows, index).id, shift, meta)
       IN  /\ selected' = r.selected
           /\ lastClicked' = r.lastClicked
    /\ rows' = renderTable(rows, columns)
    /\ Note("toggle", index, Modifiers(shift, meta))
    /\ UNCHANGED <<columns, undoStack, dragState, nextId, idLimit, user, evicted>>

\* a JSON null among the rows
IsNull(r) == Has(r, "null")

\* the rows before the first null, all rows when there is none: the rows
\* the map callback of migrateRowsIfNeeded returns for
BeforeNull(rs) ==
    LET ks == {k \in 1..Len(rs) : IsNull(rs[k])}
    IN  IF ks = {} THEN rs
        ELSE SubSeq(rs, 1, (CHOOSE k \in ks : \A j \in ks : k <= j) - 1)

\* r.id of a null row: the map callback of migrateRowsIfNeeded throws a
\* TypeError before sheet.rows is assigned
MigrationThrows(rs) == BeforeNull(rs) # rs

\* sheet.rows holds a null: reading a field of that row throws
HoldsNull(rs) == \E k \in 1..Len(rs) : IsNull(rs[k])

(***************************************************************************)
(* Drag and drop.                                                          *)
(***************************************************************************)
\* startDragRow() without the test of sourceRow.sub: any drawn row is dragged
startDragRowAnyRow(sourceIndex) ==
    /\ Idle
    /\ sourceIndex \in Drawn
    /\ dragState' = [active |-> TRUE, listening |-> TRUE,
                          sourceIndex |-> sourceIndex,
                     sourceRow |-> At(rows, sourceIndex).id,
                     targetIndex |-> Undefined]
    /\ Note("startDragRow", sourceIndex, Undefined)
    /\ UNCHANGED <<columns, rows, undoStack, selected, lastClicked, nextId, idLimit, user, evicted>>

\* startDragRow(ev, sourceIndex): left button on the drag handle of a drawn row
startDragRow(sourceIndex) ==
    /\ Idle
    /\ sourceIndex \in Indexes(rows) => sourceIndex \in Drawn
    /\ IF sourceIndex \notin Indexes(rows)
       THEN UNCHANGED dragState
       ELSE IF At(rows, sourceIndex).sub
       THEN UNCHANGED dragState
       ELSE dragState' = [active |-> TRUE, listening |-> TRUE,
                          sourceIndex |-> sourceIndex,
                          sourceRow |-> At(rows, sourceIndex).id,
                          targetIndex |-> Undefined]
    /\ Note("startDragRow", sourceIndex, Undefined)
    /\ UNCHANGED <<columns, rows, undoStack, selected, lastClicked, nextId, idLimit, user, evicted>>

\* mapping[clamp(targetVisibleIndex, 0, mapping.length)], Undefined past the end
destSheetIndex(rs, targetVisibleIndex) ==
    LET k == clamp(targetVisibleIndex, 0, Len(mapping(rs)))
    IN  IF k < Len(mapping(rs)) THEN At(mapping(rs), k) ELSE Undefined

\* srcCount with a fault: the dragged row goes alone
srcCountOne(rs, srcStart) == 1

\* the length of the group at srcStart: the row and its run of sub-rows
srcCount(rs, srcStart) ==
    IF srcStart < Len(rs)
    THEN 1 + SubRun(rs, srcStart + 1, At(rs, srcStart).id)
    ELSE 1

\* the destination index after the group's removal
adjustedDest(dest, srcStart, count) ==
    IF dest > srcStart THEN dest - count ELSE dest

\* the rows after the group at srcStart is spliced out and in again at dest
Drop(rs, srcStart, dest) ==
    LET count == srcCount(rs, srcStart)
        k == SpliceStart(rs, srcStart)
        removed == SubSeq(rs, k + 1, Min(Len(rs), k + count))
    IN  SpliceIn(SpliceOut(rs, srcStart, count),
                 adjustedDest(dest, srcStart, count), removed)

\* onDragMove() with a fault: every move drops the group at once
onDragMoveLive(targetIdx) ==
    /\ dragState.listening
    /\ targetIdx \in 0..(Len(mapping(rows)) + 1)
    /\ dragState' = [dragState EXCEPT !.targetIndex = targetIdx]
    /\ rows' = IF destSheetIndex(rows, targetIdx) = Undefined THEN rows
               ELSE renderTable(Drop(rows, dragState.sourceIndex,
                                     destSheetIndex(rows, targetIdx)), columns)
    /\ Note("onDragMove", targetIdx, Undefined)
    /\ UNCHANGED <<columns, undoStack, selected, lastClicked, nextId, idLimit, user, evicted>>

\* onDragMove(ev): the pointer picks a row boundary of the table; the table
\* holds the drawn rows and the placeholder row of an earlier move
onDragMove(targetIdx) ==
    /\ dragState.listening
    /\ targetIdx \in 0..(Len(mapping(rows)) + 1)
    /\ dragState' = [dragState EXCEPT !.targetIndex = targetIdx]
    /\ Note("onDragMove", targetIdx, Undefined)
    /\ UNCHANGED <<columns, rows, undoStack, selected, lastClicked, nextId, idLimit, user, evicted>>

\* onDragEnd(ev): the mouseup that ends a drag. The listeners are removed
\* first; the loop that builds the collapsed map reads r.sub of every row
\* and throws on a null row, before dragState is set to null
onDragEnd ==
    /\ dragState.listening
    /\ IF HoldsNull(rows)
       THEN /\ dragState' = [dragState EXCEPT !.listening = FALSE]
            /\ UNCHANGED rows
       ELSE /\ dragState' = NoDrag
            /\ LET dest == destSheetIndex(rows, dragState.targetIndex)
               IN  IF dragState.targetIndex = Undefined \/ dest = Undefined
                   THEN UNCHANGED rows
                   ELSE rows' = renderTable(Drop(rows, dragState.sourceIndex, dest),
                                            columns)
    /\ Note("onDragEnd", dragState.sourceIndex, dragState.targetIndex)
    /\ UNCHANGED <<columns, undoStack, selected, lastClicked, nextId, idLimit, user, evicted>>

(***************************************************************************)
(* Specifications.  Each one lets a subset of the handlers run, from the   *)
(* fresh sheet, until the identifiers of its bound are used up.            *)
(***************************************************************************)
\* the handlers that create rows
Create ==
    \/ addRow
    \/ \E i \in Indexes(rows) : addSubRow(i)
    \/ \E i \in 0..Len(rows) : insertRowAt(i)

\* the handlers of a drag
Drag ==
    \/ \E i \in Indexes(rows) : startDragRow(i)
    \/ \E t \in 0..(Len(rows) + 1) : onDragMove(t)
    \/ onDragEnd

\* rows are created, deleted and restored
Init == InitSheet /\ idLimit = MaxIds /\ stepsLeft = Undefined

Next ==
    \/ Create
    \/ \E i \in Indexes(rows), ok \in BOOLEAN : deleteRowByIndex(i, ok)
    \/ undo

Spec == Init /\ [][Next]_vars

\* rows are created, collapsed all at once and dragged
InitDrag == InitSheet /\ idLimit = DragIds /\ stepsLeft = Undefined

NextDrag ==
    \/ Create
    \/ \E flag \in BOOLEAN : setAllCollapsed(flag)
    \/ Drag

SpecDrag == InitDrag /\ [][NextDrag]_vars

\* rows are created, collapsed and expanded one by one
InitCollapse == InitSheet /\ idLimit = CollapseIds /\ stepsLeft = Undefined

NextCollapse ==
    \/ Create
    \/ \E i \in Indexes(rows) : toggleCollapse(i, FALSE, FALSE)

SpecCollapse == InitCollapse /\ [][NextCollapse]_vars

\* rows are created, collapsed all at once and clicked
InitSelect == InitSheet /\ idLimit = SelectIds /\ stepsLeft = Undefined

NextSelect ==
    \/ addRow
    \/ \E i \in Indexes(rows) : addSubRow(i)
    \/ \E flag \in BOOLEAN : setAllCollapsed(flag)
    \/ \E i \in Indexes(rows), shift \in BOOLEAN, meta \in BOOLEAN : toggle(i, shift, meta)

SpecSelect == InitSelect /\ [][NextSelect]_vars

\* rows are created and clicked (plain and ctrl/cmd clicks), the selected rows
\* are deleted and restored, and the delete of a single row is declined
InitDelete == InitSheet /\ idLimit = DeleteIds /\ stepsLeft = Undefined

NextDelete ==
    \/ addRow
    \/ \E i \in Indexes(rows) : addSubRow(i)
    \/ \E i \in Indexes(rows), meta \in BOOLEAN : toggle(i, FALSE, meta)
    \/ \E i \in Indexes(rows) : deleteRowByIndex(i, FALSE)
    \/ \E ok \in BOOLEAN : deleteSelected(ok)
    \/ undo

SpecDelete == InitDelete /\ [][NextDelete]_vars

\* rows are created, clicked and deleted one at a time or as a selection,
\* and the deletes are taken back
InitRedo == InitSheet /\ idLimit = RedoIds /\ stepsLeft = RedoSteps

NextRedo ==
    /\ stepsLeft > 0
    /\ \/ addRow
       \/ \E i \in Indexes(rows) : addSubRow(i)
       \/ \E i \in Indexes(rows) : toggle(i, FALSE, TRUE)
       \/ \E i \in Indexes(rows) : deleteRowByIndex(i, TRUE)
       \/ deleteSelected(TRUE)
       \/ undo

SpecRedo == InitRedo /\ [][NextRedo]_vars

\* the row handlers are called with any index, also one that names no row
\* (window.LTS exposes addSubRow, deleteRowByIndex and duplicateRow)
InitStale == InitSheet /\ idLimit = StaleIds /\ stepsLeft = StaleSteps

AnyIndex == -1..(Len(rows) + 1)

NextStale ==
    /\ stepsLeft > 0
    /\ \/ addRow
       \/ \E i \in AnyIndex : addSubRow(i)
       \/ \E i \in AnyIndex : deleteRowByIndex(i, TRUE)
       \/ \E i \in AnyIndex : duplicateRow(i)
       \/ \E i \in AnyIndex : startDragRow(i)
       \/ \E i \in Indexes(rows) : toggle(i, FALSE, TRUE)
       \/ onDragEnd

SpecStale == InitStale /\ [][NextStale]_vars

\* rows are created, clicked and deleted, or the delete is declined
InitDecline == InitSheet /\ idLimit = DeclineIds /\ stepsLeft = Undefined

NextDecline ==
    \/ addRow
    \/ \E i \in Indexes(rows) : addSubRow(i)
    \/ \E i \in Indexes(rows), meta \in BOOLEAN : toggle(i, FALSE, meta)
    \/ \E i \in Indexes(rows), ok \in BOOLEAN : deleteRowByIndex(i, ok)
    \/ \E ok \in BOOLEAN : deleteSelected(ok)

SpecDecline == InitDecline /\ [][NextDecline]_vars

\* rows are created, clicked with and without ctrl/cmd, and the selected
\* rows are deleted
InitMulti == InitSheet /\ idLimit = MultiIds /\ stepsLeft = Undefined

NextMulti ==
    \/ addRow
    \/ \E i \in Indexes(rows) : addSubRow(i)
    \/ \E i \in Indexes(rows), meta \in BOOLEAN : toggle(i, FALSE, meta)
    \/ \E ok \in BOOLEAN : deleteSelected(ok)

SpecMulti == InitMulti /\ [][NextMulti]_vars

\* rows are added, inserted below the first row (which splits a group) and
\* duplicated
InitDup == InitSheet /\ idLimit = DupIds /\ stepsLeft = Undefined

NextDup ==
    \/ addRow
    \/ \E i \in Indexes(rows) : addSubRow(i)
    \/ insertRowAt(1)
    \/ \E i \in Indexes(rows) : duplicateRow(i)

SpecDup == InitDup /\ [][NextDup]_vars

\* a sheet of n rows built with addSubRow on the seed row (subs times) and
\* addRow: the seed row, its sub-rows (the newest first), then the added rows
BuiltRows(n, subs) ==
    [k \in 1..n |->
        LET id == IF k = 1 THEN 1
                  ELSE IF k <= subs + 1 THEN subs + 3 - k
                  ELSE k
        IN  [id |-> id, cells |-> <<id, EmptyCell, EmptyCell>>,
             sub |-> (k > 1 /\ k <= subs + 1),
             parent |-> IF k > 1 /\ k <= subs + 1 THEN 1 ELSE Null,
             collapsed |-> FALSE]]

\* more rows than the undo stack holds records; the first row is deleted
\* and restored again and again
InitUndo ==
    /\ columns = DefaultColumns
    /\ \E subs \in {0, 2} : rows = BuiltRows(UndoRows, subs)
    /\ undoStack = <<>>
    /\ selected = {}
    /\ lastClicked = Null
    /\ dragState = NoDrag
    /\ nextId = UndoRows + 1
    /\ idLimit = UndoRows
    /\ lastOp = [op |-> "init", index |-> Undefined, arg |-> Undefined, prev |-> ""]
    /\ before = NoSnapshot
    /\ prior = NoSnapshot
    /\ run = NoRun
    /\ evicted = {}
    /\ user = Null
    /\ data = InitialData
    /\ issued = {}
    /\ response = NoResponse
    /\ stepsLeft = Undefined

NextUndo ==
    \/ \E ok \in BOOLEAN : deleteRowByIndex(0, ok)
    \/ undo

SpecUndo == InitUndo /\ [][NextUndo]_vars

\* a sheet of four rows, the first with or without a sub-row; rows are
\* deleted from the context menu and dragged, and while the mouse button is
\* down the keyboard shortcuts for undo and add row are handled
InitRace ==
    /\ columns = DefaultColumns
    /\ \E subs \in {0, 1} : rows = BuiltRows(RaceIds, subs)
    /\ undoStack = <<>>
    /\ selected = {}
    /\ lastClicked = Null
    /\ dragState = NoDrag
    /\ nextId = RaceIds + 1
    /\ idLimit = RaceIds + 1
    /\ lastOp = [op |-> "init", index |-> Undefined, arg |-> Undefined, prev |-> ""]
    /\ before = NoSnapshot
    /\ prior = NoSnapshot
    /\ run = NoRun
    /\ evicted = {}
    /\ user = Null
    /\ data = InitialData
    /\ issued = {}
    /\ response = NoResponse
    /\ stepsLeft = RaceSteps

NextRace ==
    /\ stepsLeft > 0
    /\ \/ addRow
       \/ undo
       \/ \E i \in Indexes(rows) : deleteRowByIndex(i, TRUE)
       \/ \E i \in Indexes(rows) : startDragRow(i)
       \/ \E t \in 0..(Len(rows) + 1) : onDragMove(t)
       \/ onDragEnd

SpecRace == InitRace /\ [][NextRace]_vars

(***************************************************************************)
(* Import, load, save, login and logout.                                   *)
(*                                                                         *)
(* A request and the handling of its response are one step: no other       *)
(* handler runs while saveSheetForUser() or loadSheetForUser() waits.      *)
(* An HTTP outcome is its status code; NetworkError is a rejected fetch.   *)
(***************************************************************************)
\* the documents a file or the server can hold when the identifiers ids
\* have been exported: no column at all; a bare-string column and a
\* bare-list row with more cells than columns; the default columns and an
\* exported row with fewer cells than columns, alone or followed by an
\* indexed-object sub-row without identifier; a document without columns
Documents(ids) ==
    {[columns |-> <<>>, rows |-> <<>>],
     [columns |-> <<[string |-> "Task"]>>, rows |-> <<[array |-> <<7, 8>>]>>],
     [rows |-> <<>>]}
    \cup {[columns |-> DefaultColumns,
           rows |-> <<[id |-> i, cells |-> <<7>>, sub |-> FALSE, parent |-> Null,
                       collapsed |-> FALSE]>>] : i \in ids}
    \cup {[columns |-> DefaultColumns,
           rows |-> <<[id |-> i, cells |-> <<7, 8>>, sub |-> FALSE, parent |-> Null,
                       collapsed |-> TRUE],
                      ("0" :> 7) @@ ("_sub" :> TRUE) @@ ("_parent" :> i)>>] : i \in ids}

\* the identifiers uid() has issued
IssuedIds == 1..(nextId - 1)

\* sheet.columns and sheet.rows of a document, [] when falsy
ColumnsOf(doc) == IF Has(doc, "columns") THEN doc.columns ELSE <<>>
RowsOf(doc) == IF Has(doc, "rows") THEN doc.rows ELSE <<>>

\* sheet = doc; migrateColumnsIfNeeded(); migrateRowsIfNeeded();
\* normalizeRows(); renderTable();
Loaded(doc) ==
    LET cols == migrateColumnsIfNeeded(ColumnsOf(doc))
        rs   == normalizeRows(migrateRowsIfNeeded(RowsOf(doc), nextId), cols)
    IN  [columns |-> migrateColumnsIfNeeded(cols),
         rows    |-> normalizeRows(
                         migrateRowsIfNeeded(rs, nextId + Issued(RowsOf(doc))),
                         migrateColumnsIfNeeded(cols)),
         nextId  |-> nextId + Issued(RowsOf(doc))]

\* documents whose rows hold a JSON null
Malformed ==
    {[columns |-> <<[string |-> "Task"]>>, rows |-> <<[null |-> TRUE]>>],
     [columns |-> DefaultColumns, rows |-> <<[array |-> <<7>>], [null |-> TRUE]>>]}

\* the importFile change handler: a document that lacks columns or rows is
\* refused; any other document becomes the sheet and is then migrated, and
\* an exception of the migration ends the handler where it stands (the
\* catch only alerts). Note's arg is 0 when 'Import error' is shown
importFile(doc) ==
    /\ CanIssue(Issued(BeforeNull(RowsOf(doc))))
    /\ IF ~(Has(doc, "columns") /\ Has(doc, "rows"))
       THEN /\ UNCHANGED <<columns, rows, nextId>>
            /\ Note("importFile", Undefined, 0)
       ELSE IF MigrationThrows(doc.rows)
       THEN /\ columns' = migrateColumnsIfNeeded(doc.columns)
            /\ rows' = doc.rows
            /\ nextId' = nextId + Issued(BeforeNull(doc.rows))
            /\ Note("importFile", Undefined, 0)
       ELSE /\ columns' = Loaded(doc).columns
            /\ rows' = Loaded(doc).rows
            /\ nextId' = Loaded(doc).nextId
            /\ Note("importFile", Undefined, 1)
    /\ UNCHANGED <<undoStack, selected, lastClicked, dragState, idLimit, user, evicted>>

Outcomes == {OK, ServerError, Unauthorized, NetworkError}

\* doLogout(): the session is dropped and the sheet is replaced by the
\* default columns with no rows
LoggedOut == [columns |-> migrateColumnsIfNeeded(DefaultColumns),
              rows    |-> renderTable(<<>>, DefaultColumns)]

doLogout ==
    /\ user' = Null
    /\ columns' = LoggedOut.columns
    /\ rows' = LoggedOut.rows
    /\ Note("doLogout", Undefined, Undefined)
    /\ UNCHANGED <<undoStack, selected, lastClicked, dragState, nextId, idLimit, evicted>>

\* the sheet and the session after apiFetch() has seen the outcome: a 401
\* runs doLogout() before it throws
apiFetch(outcome) ==
    IF outcome = Unauthorized
    THEN [columns |-> LoggedOut.columns, rows |-> LoggedOut.rows, user |-> Null]
    ELSE [columns |-> columns, rows |-> rows, user |-> user]

\* onSaveClicked() and saveSheetForUser(user); without a user nothing is
\* sent
saveSheetForUser(outcome) ==
    /\ IF user = Null
       THEN /\ UNCHANGED <<columns, rows, user>>
            /\ Note("onSaveClicked", Undefined, Undefined)
       ELSE /\ columns' = apiFetch(outcome).columns
            /\ rows' = apiFetch(outcome).rows
            /\ user' = apiFetch(outcome).user
            /\ Note("saveSheetForUser", Undefined, outcome)
    /\ UNCHANGED <<undoStack, selected, lastClicked, dragState, nextId, idLimit, evicted>>

\* loadSheetForUser(username): the answer is adopted when it is OK and
\* carries a sheet (present is FALSE for {sheet: null})
loadSheetForUser(username, outcome, present, doc) ==
    /\ IF outcome = OK /\ present
       THEN /\ CanIssue(Issued(RowsOf(doc)))
            /\ columns' = Loaded(doc).columns
            /\ rows' = Loaded(doc).rows
            /\ nextId' = Loaded(doc).nextId
            /\ user' = username
       ELSE /\ columns' = apiFetch(outcome).columns
            /\ rows' = apiFetch(outcome).rows
            /\ user' = IF outcome = Unauthorized THEN Null ELSE username
            /\ UNCHANGED nextId
    /\ Note("loadSheetForUser", IF present THEN 1 ELSE 0, outcome)
    /\ UNCHANGED <<undoStack, selected, lastClicked, dragState, idLimit, evicted>>

\* doLogin(u, p): a refused login throws before anything is stored; an
\* accepted one stores the token and the user and loads the user's sheet
doLogin(accepted, outcome, present, doc) ==
    IF accepted
    THEN loadSheetForUser(1, outcome, present, doc)
    ELSE /\ Note("doLogin", Undefined, 0)
         /\ UNCHANGED <<columns, rows, undoStack, selected, lastClicked, dragState,
                        nextId, idLimit, user, evicted>>

(***************************************************************************)
(* Specification of the sheet with its columns, files and session: rows    *)
(* are added, deleted and restored while columns come and go and           *)
(* documents are imported, loaded and saved.                               *)
(***************************************************************************)
InitColumns == InitSheet /\ idLimit = SheetIds /\ stepsLeft = MaxSteps

NextColumns ==
    /\ stepsLeft > 0
    /\ \/ addRow
       \/ \E i \in Indexes(rows) : addSubRow(i)
       \/ \E i \in Indexes(rows) : insertRowAt(i)
       \/ \E i \in Indexes(rows) : duplicateRow(i)
       \/ \E i \in Indexes(rows) : deleteRowByIndex(i, TRUE)
       \/ \E i \in Indexes(rows) : toggle(i, FALSE, FALSE)
       \/ deleteSelected(TRUE)
       \/ undo
       \/ \E i \in 0..Len(columns), named \in BOOLEAN : insertColumnAt(i, named)
       \/ \E i \in Indexes(columns) : deleteColumn(i)
       \/ \E doc \in Documents(IssuedIds) : importFile(doc)
       \/ \E doc \in Documents(IssuedIds) : loadSheetForUser(1, OK, TRUE, doc)

SpecColumns == InitColumns /\ [][NextColumns]_vars

(***************************************************************************)
(* Specification of the session: the user logs in and out, saves, loads    *)
(* and imports while rows are added, deleted and restored.  The server     *)
(* does not answer 401 to the token it has just issued (server.js auth);   *)
(* a later save can meet an expired token.                                 *)
(***************************************************************************)
InitSession == InitSheet /\ idLimit = SessionIds /\ stepsLeft = SessionSteps

NextSession ==
    /\ stepsLeft > 0
    /\ \/ addRow
       \/ \E i \in Indexes(rows) : deleteRowByIndex(i, TRUE)
       \/ undo
       \/ \E doc \in Documents(IssuedIds) : importFile(doc)
       \/ \E accepted, present \in BOOLEAN, outcome \in Outcomes \ {Unauthorized},
             doc \in Documents(IssuedIds) : doLogin(accepted, outcome, present, doc)
       \/ \E outcome \in Outcomes : saveSheetForUser(outcome)
       \/ doLogout

SpecSession == InitSession /\ [][NextSession]_vars

\* files are imported, also files whose rows hold a null, between edits of
\* the sheet; while the sheet holds a null row every render throws, and the
\* edits are followed no further until an import replaces the sheet
InitImport == InitSheet /\ idLimit = ImportIds /\ stepsLeft = ImportSteps

Renders == ~MigrationThrows(rows)

NextImport ==
    /\ stepsLeft > 0
    /\ \/ \E doc \in Documents(IssuedIds) \cup Malformed : importFile(doc)
       \/ Renders /\ addRow
       \/ Renders /\ \E i \in Indexes(rows) : toggle(i, FALSE, TRUE)
       \/ Renders /\ \E i \in Indexes(rows) : deleteRowByIndex(i, TRUE)
       \/ Renders /\ undo

SpecImport == InitImport /\ [][NextImport]_vars

\* startDragRow(ev, sourceIndex) from a drag handle of the table that was
\* drawn before an import threw: the handles keep the indexes of that table
\* while sheet.rows holds the rows of the imported document as they came
startDragRowStaleTable(sourceIndex) ==
    /\ Idle
    /\ lastOp.op = "importFile" /\ HoldsNull(rows)
    /\ before.valid /\ ~HoldsNull(before.rows)
    /\ \E k \in 1..Len(mapping(before.rows)) : mapping(before.rows)[k] = sourceIndex
    /\ IF sourceIndex \notin Indexes(rows)
       THEN UNCHANGED dragState
       ELSE IF IsNull(At(rows, sourceIndex))
       THEN UNCHANGED dragState
       ELSE IF Flag(At(rows, sourceIndex), "sub")
       THEN UNCHANGED dragState
       ELSE dragState' = [active |-> TRUE, listening |-> TRUE,
                          sourceIndex |-> sourceIndex,
                          sourceRow |-> Or(At(rows, sourceIndex), "id", Null),
                          targetIndex |-> Undefined]
    /\ Note("startDragRow", sourceIndex, Undefined)
    /\ UNCHANGED <<columns, rows, undoStack, selected, lastClicked, nextId, idLimit, user, evicted>>

\* files are imported, also files whose rows hold a null, and rows are
\* dragged by their handles, also by the handles of the table that is still
\* drawn after an import threw
InitStuck == InitSheet /\ idLimit = StuckIds /\ stepsLeft = StuckSteps

NextStuck ==
    /\ stepsLeft > 0
    /\ \/ \E doc \in Documents(IssuedIds) \cup Malformed : importFile(doc)
       \/ Renders /\ addRow
       \/ Renders /\ \E i \in Indexes(rows) : startDragRow(i)
       \/ \E i \in Indexes(before.rows) : startDragRowStaleTable(i)
       \/ Renders /\ \E t \in 0..(Len(rows) + 1) : onDragMove(t)
       \/ onDragEnd

SpecStuck == InitStuck /\ [][NextStuck]_vars

(***************************************************************************)
(* The endpoints of the server.                                            *)
(***************************************************************************)
\* what the browser holds; no endpoint touches it
browser == <<columns, rows, undoStack, selected, lastClicked, dragState, nextId,
             idLimit, lastOp, before, prior, run, evicted, user>>

\* the history a request leaves: the request, the answer, the files and
\* tokens before it and, for every name, the sheet last accepted by
\* POST /api/sheet for it and not deleted with its user since
Answer(op, token, request, status, body) ==
    /\ response' = [op |-> op, token |-> token, request |-> request,
                    status |-> status, body |-> body, data |-> data,
                    issued |-> issued,
                    saved |-> IF op = "POST sheet" /\ status = OK
                              THEN [response.saved EXCEPT ![request.username] = request.sheet]
                              ELSE IF op = "admin/delete-user" /\ status = OK
                              THEN [response.saved EXCEPT ![request.username] = JNull]
                              ELSE response.saved]
    /\ stepsLeft' = IF stepsLeft > 0 THEN stepsLeft - 1 ELSE stepsLeft
    /\ UNCHANGED browser

Error == [error |-> TRUE]
Success == [success |-> TRUE]

\* POST /api/register
register(username, password) ==
    LET users == loadUsers(data)
    IN  /\ IF Has(users, username)
           THEN /\ UNCHANGED data
                /\ Answer("register", NoHeader, [username |-> username], BadRequest, Error)
           ELSE /\ data' = writeFileSync(data, USERS_FILE,
                               users @@ (username :> [password |-> hashSync(password)]))
                /\ Answer("register", NoHeader, [username |-> username], OK, Success)
        /\ UNCHANGED issued

\* POST /api/login
login(username, password) ==
    LET users == loadUsers(data)
    IN  /\ IF ~Has(users, username)
           THEN /\ UNCHANGED issued
                /\ Answer("login", NoHeader, [username |-> username], Unauthorized, Error)
           ELSE IF ~Has(users[username], "password")
           THEN /\ UNCHANGED issued
                /\ Answer("login", NoHeader, [username |-> username], ServerError, Error)
           ELSE IF ~compareSync(password, users[username].password)
           THEN /\ UNCHANGED issued
                /\ Answer("login", NoHeader, [username |-> username], Unauthorized, Error)
           ELSE /\ issued' = issued \cup {username}
                /\ Answer("login", NoHeader, [username |-> username], OK, [token |-> Signed(username)])
        /\ UNCHANGED data

\* POST /api/reset-password
resetPassword(username, newPassword) ==
    LET users == loadUsers(data)
    IN  /\ IF ~Has(users, username)
           THEN /\ UNCHANGED data
                /\ Answer("reset-password", NoHeader, [username |-> username], NotFound, Error)
           ELSE /\ data' = writeFileSync(data, USERS_FILE,
                               [users EXCEPT ![username] =
                                   [password |-> hashSync(newPassword)] @@ @])
                /\ Answer("reset-password", NoHeader, [username |-> username], OK, Success)
        /\ UNCHANGED issued

\* GET /api/admin/users
adminUsers(token) ==
    /\ IF auth(token) # OK
       THEN Answer("admin/users", token, [none |-> TRUE], Unauthorized, Error)
       ELSE IF token.username # "admin"
       THEN Answer("admin/users", token, [none |-> TRUE], Forbidden, Error)
       ELSE Answer("admin/users", token, [none |-> TRUE], OK, [users |-> DOMAIN loadUsers(data)])
    /\ UNCHANGED <<data, issued>>

\* POST /api/admin/delete-user
deleteUser(token, username) ==
    LET users == loadUsers(data)
        saved == writeFileSync(data, USERS_FILE, Without(users, username))
        userFile == UserFile(username)
    IN  /\ IF auth(token) # OK
           THEN /\ UNCHANGED data
                /\ Answer("admin/delete-user", token, [username |-> username], Unauthorized, Error)
           ELSE IF token.username # "admin"
           THEN /\ UNCHANGED data
                /\ Answer("admin/delete-user", token, [username |-> username], Forbidden, Error)
           ELSE IF username = "admin"
           THEN /\ UNCHANGED data
                /\ Answer("admin/delete-user", token, [username |-> username], BadRequest, Error)
           ELSE IF ~Has(users, username)
           THEN /\ UNCHANGED data
                /\ Answer("admin/delete-user", token, [username |-> username], NotFound, Error)
           ELSE /\ data' = IF userFile \in DOMAIN saved
                           THEN unlinkSync(saved, userFile) ELSE saved
                /\ Answer("admin/delete-user", token, [username |-> username], OK, Success)
        /\ UNCHANGED issued

\* GET /api/sheet/:username
getSheet(token, username) ==
    LET file == UserFile(token.username)
    IN  /\ IF auth(token) # OK
           THEN Answer("GET sheet", token, [username |-> username], Unauthorized, Error)
           ELSE IF username # token.username
           THEN Answer("GET sheet", token, [username |-> username], Forbidden, Error)
           ELSE IF file \notin DOMAIN data
           THEN Answer("GET sheet", token, [username |-> username], OK, [sheet |-> JNull])
           ELSE Answer("GET sheet", token, [username |-> username], OK, [sheet |-> data[file]])
        /\ UNCHANGED <<data, issued>>

\* POST /api/sheet/:username with the body {sheet}
postSheet(token, username, sheet) ==
    LET file == UserFile(token.username)
    IN  /\ IF auth(token) # OK
           THEN /\ UNCHANGED data
                /\ Answer("POST sheet", token, [username |-> username, sheet |-> sheet], Unauthorized, Error)
           ELSE IF username # token.username
           THEN /\ UNCHANGED data
                /\ Answer("POST sheet", token, [username |-> username, sheet |-> sheet], Forbidden, Error)
           ELSE /\ data' = writeFileSync(data, file, sheet)
                /\ Answer("POST sheet", token, [username |-> username, sheet |-> sheet], OK, Success)
        /\ UNCHANGED issued

\* clients register, log in, reset passwords and call the admin and sheet
\* endpoints with any header
InitServer == InitSheet /\ idLimit = MaxIds /\ stepsLeft = ServerSteps

NextServer ==
    /\ stepsLeft > 0
    /\ \/ \E u \in Usernames : register(u, 1)
       \/ \E u \in Usernames, p \in Passwords : login(u, p)
       \/ \E u \in Usernames, p \in Passwords : resetPassword(u, p)
       \/ \E t \in Tokens : adminUsers(t)
       \/ \E t \in Tokens, u \in Usernames : deleteUser(t, u)
       \/ \E t \in Tokens, u \in Usernames : getSheet(t, u)
       \/ \E t \in Tokens, u \in Usernames, s \in Sheets : postSheet(t, u, s)

SpecServer == InitServer /\ [][NextServer]_vars

(***************************************************************************)
(* Vocabulary of the properties.                                           *)
(***************************************************************************)
IdsOf(rs) == {rs[i].id : i \in 1..Len(rs)}

\* the rows of rs whose identifier is (keep) or is not (~keep) in ids
Pick(rs, ids, keep) ==
    LET Test(r) == (r.id \in ids) = keep
    IN  SelectSeq(rs, Test)

\* the number of rows directly after 0-based index i that are sub-rows of pid
RunAfter(rs, i, pid) ==
    Cardinality({m \in 1..(Len(rs) - i - 1) :
                    \A k \in 1..m : rs[i + 1 + k].sub /\ rs[i + 1 + k].parent = pid})

\* the sub-rows of pid form one run that directly follows the row pid
GroupContiguous(rs, pid) ==
    \E p \in 1..Len(rs) :
        /\ ~rs[p].sub /\ rs[p].id = pid
        /\ \A i \in 1..Len(rs) :
              (rs[i].sub /\ rs[i].parent = pid) =>
                  /\ i > p
                  /\ \A k \in (p + 1)..i : rs[k].sub /\ rs[k].parent = pid

\* sub-block contiguity of a whole sheet
Contiguous(rs) ==
    \A i \in 1..Len(rs) : rs[i].sub => GroupContiguous(rs, rs[i].parent)

\* the record a confirmed delete pushed, seen from the state after it
Pushed(stack) == stack[Len(stack)]

(***************************************************************************)
(* Deleting rows and taking the delete back.                               *)
(***************************************************************************)
\* the handler before the undo() that ran last was a confirmed
\* deleteRowByIndex on a non-sub row of a sheet with contiguous sub-blocks
UndoneGroupDelete ==
    /\ lastOp.op = "undo"
    /\ lastOp.prev = "deleteRowByIndex"
    /\ prior.valid
    /\ before.undoStack # prior.undoStack
    /\ ~Pushed(before.undoStack).items[1].row.sub
    /\ Contiguous(prior.rows)

\* C1: on a sheet with contiguous sub-blocks, a confirmed deleteRowByIndex on
\* a non-sub row with N >= 0 sub-rows followed at once by one undo() leaves
\* sheet.rows exactly as it was before the delete
C1_UndoRestoresDeletedGroup == UndoneGroupDelete => rows = prior.rows

\* the sheet after a confirmed deleteRowByIndex(i) on the sheet old
DeletedAt(old, i) ==
    LET r == At(old, i)
        n == IF r.sub THEN 0 ELSE RunAfter(old, i, r.id)
    IN  [rows  |-> SubSeq(old, 1, i) \o SubSeq(old, i + n + 2, Len(old)),
         items |-> [k \in 1..(n + 1) |-> [index |-> i, row |-> old[i + k]]]]

\* C2: a confirmed deleteRowByIndex removes the row and, when it is not a
\* sub-row, the run of its sub-rows directly after it, keeps every other row
\* in order, and pushes one delete-rows record that lists each removed row
\* with the index it had when it was removed, in removal order; the records
\* pushed earlier stay, but for the oldest one when the stack was full
C2_DeleteRemovesGroupAndRecordsIt ==
    (lastOp.op = "deleteRowByIndex" /\ lastOp.arg = 1) =>
        LET d == DeletedAt(before.rows, lastOp.index)
            kept == IF Len(before.undoStack) < LIMIT THEN before.undoStack
                    ELSE Tail(before.undoStack)
        IN  /\ rows = d.rows
            /\ undoStack = Append(kept, [type |-> "delete-rows", items |-> d.items])

\* C2 witness: a non-sub row was deleted with its sub-rows, another row stays
C2_GroupDeleted ==
    /\ lastOp.op = "deleteRowByIndex" /\ lastOp.arg = 1
    /\ ~At(before.rows, lastOp.index).sub
    /\ Len(Pushed(undoStack).items) >= 2
    /\ rows # <<>>

(***************************************************************************)
(* Sub-block contiguity and numbering.                                     *)
(***************************************************************************)
\* C3: every handler that adds, inserts, deletes, duplicates or drags rows
\* takes a sheet with contiguous sub-blocks to a sheet with contiguous
\* sub-blocks
C3_ContiguityPreserved ==
    [][(Contiguous(rows) /\ lastOp'.op # "undo") => Contiguous(rows')]_vars

\* the 1-based rank of the non-sub row with identifier pid among the non-sub rows
RankOf(rs, pid) ==
    LET p == CHOOSE q \in 1..Len(rs) : ~rs[q].sub /\ rs[q].id = pid
    IN  Cardinality({q \in 1..p : ~rs[q].sub})

\* the number the numbering scheme gives to the row at 0-based index i:
\* <<k>> for the k-th non-sub row, <<k, j>> for the j-th sub-row of that row
SchemeNumber(rs, i) ==
    LET r == At(rs, i)
    IN  IF ~r.sub THEN <<RankOf(rs, r.id)>>
        ELSE <<RankOf(rs, r.parent),
               Cardinality({q \in 1..(i + 1) : rs[q].sub /\ rs[q].parent = r.parent})>>

NoneCollapsed(rs) == \A i \in 1..Len(rs) : ~rs[i].collapsed

\* C4: on a sheet with contiguous sub-blocks and no collapsed row,
\* computeHierNumber gives k to the k-th non-sub row and k.j to its j-th
\* sub-row
C4_NumberingFollowsScheme ==
    (Contiguous(rows) /\ NoneCollapsed(rows)) =>
        \A i \in Indexes(rows) : computeHierNumber(rows, i) = SchemeNumber(rows, i)

(***************************************************************************)
(* Numbering under collapse.                                               *)
(***************************************************************************)
\* the row at 0-based index i is a sub-row whose parent row is collapsed
SubOfCollapsed(rs, i) ==
    /\ At(rs, i).sub
    /\ \E p \in 1..Len(rs) :
          ~rs[p].sub /\ rs[p].id = At(rs, i).parent /\ rs[p].collapsed

\* C5: computeHierNumber gives the empty string to every sub-row of a
\* collapsed parent and to every index outside the sheet, and gives every
\* non-sub row its 1-based rank among the non-sub rows, whatever the
\* collapsed flags are
C5_CollapsedSubRowsUnnumbered ==
    \A i \in (0 - 1)..(Len(rows) + 1) :
        /\ i \notin Indexes(rows) => computeHierNumber(rows, i) = <<>>
        /\ i \in Indexes(rows) =>
             /\ SubOfCollapsed(rows, i) => computeHierNumber(rows, i) = <<>>
             /\ ~At(rows, i).sub =>
                    computeHierNumber(rows, i) =
                        <<Cardinality({q \in 1..(i + 1) : ~rows[q].sub})>>

\* C5 witness: a collapsed row hides its sub-row and the next non-sub row is
\* numbered 2
C5_CollapsedParentThenRow ==
    \E i \in Indexes(rows) :
        /\ i >= 2
        /\ ~At(rows, i).sub
        /\ SubOfCollapsed(rows, i - 1)
        /\ computeHierNumber(rows, i - 1) = <<>>
        /\ computeHierNumber(rows, i) = <<2>>

(***************************************************************************)
(* Drag reorder.                                                           *)
(***************************************************************************)
\* onDragEnd ran last, with a target index set, on a non-sub row whose
\* sub-rows were one run directly after it
GroupDropped ==
    /\ lastOp.op = "onDragEnd"
    /\ lastOp.arg # Undefined
    /\ lastOp.index \in Indexes(before.rows)
    /\ ~At(before.rows, lastOp.index).sub
    /\ GroupContiguous(before.rows, At(before.rows, lastOp.index).id)

\* C6: such a drop only permutes sheet.rows: the rows are the same rows, the
\* dragged row and its sub-rows are together and in their old order, and
\* the other rows keep their relative order, for every target visible index
C6_DropPermutesRows ==
    GroupDropped =>
        LET old == before.rows
            s == lastOp.index
            n == RunAfter(old, s, At(old, s).id)
            group == SubSeq(old, s + 1, s + 1 + n)
        IN  /\ Len(rows) = Len(old)
            /\ {rows[i] : i \in 1..Len(rows)} = {old[i] : i \in 1..Len(old)}
            /\ \E d \in 1..(Len(rows) - n) : SubSeq(rows, d, d + n) = group
            /\ Pick(rows, IdsOf(group), FALSE) = Pick(old, IdsOf(group), FALSE)

\* C6 witness: a row was dropped with its sub-row at another place
C6_GroupMoved ==
    /\ GroupDropped
    /\ RunAfter(before.rows, lastOp.index, At(before.rows, lastOp.index).id) >= 1
    /\ rows # before.rows

\* C7: a drop leaves every group that was contiguous before it contiguous:
\* the dragged group is never put between another row and its sub-rows
C7_DropKeepsGroupsTogether ==
    (lastOp.op = "onDragEnd" /\ lastOp.arg # Undefined) =>
        \A pid \in IdsOf(before.rows) :
            GroupContiguous(before.rows, pid) => GroupContiguous(rows, pid)

(***************************************************************************)
(* Duplicating rows.                                                       *)
(***************************************************************************)
\* the rows are copies of the rows src under fresh identifiers: the first
\* copy differs from its original in its id only, every further copy in its
\* id and in its parent, which is the first copy's id
CopiesOf(copies, src, old) ==
    /\ Len(copies) = Len(src)
    /\ Cardinality(IdsOf(copies)) = Len(copies)
    /\ IdsOf(copies) \cap IdsOf(old) = {}
    /\ \A k \in 1..Len(src) :
          copies[k] = IF k = 1 THEN [src[1] EXCEPT !.id = copies[1].id]
                      ELSE [src[k] EXCEPT !.id = copies[k].id,
                                          !.parent = copies[1].id]

\* C8: duplicateRow on a non-sub row with N sub-rows in one run after it
\* puts N+1 new rows directly after the last of them: a copy under a fresh
\* id, then the copies of the sub-rows in order, each under a fresh id and
\* with the copy's id as parent; a sub-row gets one copy, with the same
\* parent, directly after it; the rows that were there before are unchanged
\* and the copies' cells hold equal values
C8_DuplicateCopiesGroup ==
    (lastOp.op = "duplicateRow" /\
     (At(before.rows, lastOp.index).sub \/
      GroupContiguous(before.rows, At(before.rows, lastOp.index).id))) =>
        LET old == before.rows
            i == lastOp.index
            n == IF At(old, i).sub THEN 0 ELSE RunAfter(old, i, At(old, i).id)
        IN  /\ Len(rows) = Len(old) + n + 1
            /\ SubSeq(rows, 1, i + 1 + n) = SubSeq(old, 1, i + 1 + n)
            /\ SubSeq(rows, i + 2 * n + 3, Len(rows)) = SubSeq(old, i + n + 2, Len(old))
            /\ CopiesOf(SubSeq(rows, i + n + 2, i + 2 * n + 2),
                        SubSeq(old, i + 1, i + 1 + n), old)

\* C8 witness: a non-sub row was duplicated with its two sub-rows
C8_GroupDuplicated ==
    /\ lastOp.op = "duplicateRow"
    /\ ~At(before.rows, lastOp.index).sub
    /\ GroupContiguous(before.rows, At(before.rows, lastOp.index).id)
    /\ RunAfter(before.rows, lastOp.index, At(before.rows, lastOp.index).id) >= 2

(***************************************************************************)
(* The undo stack.                                                         *)
(***************************************************************************)
StackIds(stack) == UNION {RecordIds(stack[k]) : k \in 1..Len(stack)}

ConfirmedDelete ==
    lastOp.op \in {"deleteRowByIndex", "deleteSelected"} /\ lastOp.arg = 1

\* C9: the undo stack never holds more than LIMIT records, and a push on a
\* full stack drops the oldest record; after more than LIMIT deletes in a
\* row exactly LIMIT of them can be undone, each undo() taking back the most
\* recent record left; the rows of a dropped record never come back, and
\* undo() on the empty stack changes nothing
C9_UndoStackBounded ==
    /\ Len(undoStack) <= LIMIT
    /\ (ConfirmedDelete /\ Len(before.undoStack) = LIMIT) =>
          /\ Len(undoStack) = LIMIT
          /\ SubSeq(undoStack, 1, LIMIT - 1) = Tail(before.undoStack)
    /\ run.deletes > LIMIT =>
          /\ Len(undoStack) = LIMIT - run.undos
          /\ Cardinality(evicted) >= run.deletes - LIMIT
    /\ (lastOp.op = "undo" /\ before.undoStack # <<>>) =>
          /\ undoStack = SubSeq(before.undoStack, 1, Len(before.undoStack) - 1)
          /\ IdsOf(rows) = IdsOf(before.rows) \cup RecordIds(Pushed(before.undoStack))
    /\ (lastOp.op = "undo" /\ before.undoStack = <<>>) =>
          /\ rows = before.rows
          /\ columns = before.columns
          /\ undoStack = <<>>
    /\ evicted \cap (IdsOf(rows) \cup StackIds(undoStack)) = {}
    /\ IdsOf(rows) \cup StackIds(undoStack) \cup evicted = 1..(nextId - 1)

\* C9 witness: more than LIMIT deletes in a row, LIMIT undos, and one more
\* undo on the stack they emptied
C9_StackOverflowedAndDrained ==
    /\ run.deletes > LIMIT
    /\ run.undos = LIMIT
    /\ lastOp.op = "undo"
    /\ before.undoStack = <<>>
    /\ evicted # {}

(***************************************************************************)
(* Undo records of the mutation operations.                                *)
(***************************************************************************)
MutationOps ==
    {"addRow", "addSubRow", "insertRowAt", "insertColumnAt", "deleteColumn",
     "deleteRowByIndex", "deleteSelected", "duplicateRow", "onDragEnd"}

\* C10: every mutation operation that changed the sheet pushed one undo
\* record (the stack holds one more, up to LIMIT), and an undo() directly
\* after it gives the sheet it started from
C10_MutationsAreUndoable ==
    /\ (lastOp.op \in MutationOps /\
        (rows # before.rows \/ columns # before.columns)) =>
          Len(undoStack) = Min(Len(before.undoStack) + 1, LIMIT)
    /\ (lastOp.op = "undo" /\ lastOp.prev \in MutationOps /\ prior.valid /\
        (before.rows # prior.rows \/ before.columns # prior.columns)) =>
          (rows = prior.rows /\ columns = prior.columns)

(***************************************************************************)
(* Selection and the delete of the selected rows.                          *)
(***************************************************************************)
\* C11: a confirmed deleteSelected followed at once by one undo() leaves
\* sheet.rows exactly as it was before the delete, whatever was selected
C11_UndoRestoresDeletedSelection ==
    (/\ lastOp.op = "undo"
     /\ lastOp.prev = "deleteSelected"
     /\ prior.valid
     /\ before.undoStack # prior.undoStack) => rows = prior.rows

\* the row that the click that ran last was on
Clicked == At(rows, lastOp.index).id

\* the position of the row with identifier id, from 1
PositionOf(rs, id) == CHOOSE k \in 1..Len(rs) : rs[k].id = id

\* C12: a shift-click on row b after a plain click on row a selects exactly
\* the rows stored from a to b, both included, whichever comes first, the
\* rows hidden under a collapsed parent too
C12_ShiftClickSelectsStorageRange ==
    (/\ lastOp.op = "toggle"
     /\ lastOp.arg \in {2, 3}
     /\ before.lastClicked \in IdsOf(rows)
     /\ before.selected = {before.lastClicked}) =>
        LET a == PositionOf(rows, before.lastClicked)
            b == PositionOf(rows, Clicked)
        IN  selected = {rows[k].id : k \in Min(a, b)..Max(a, b)}

\* C12 witness: the shift-click came before the anchor in storage order and
\* the range holds a row that is not drawn
C12_RangeOverHiddenRow ==
    /\ lastOp.op = "toggle"
    /\ lastOp.arg = 2
    /\ before.lastClicked \in IdsOf(rows)
    /\ before.selected = {before.lastClicked}
    /\ PositionOf(rows, Clicked) < PositionOf(rows, before.lastClicked)
    /\ \E k \in 1..Len(rows) : rows[k].id \in selected /\ Hidden(rows, rows[k])

\* C13: a click without shift makes the clicked row the anchor; without a
\* modifier the selection is the clicked row alone, with ctrl/cmd only the
\* clicked row's membership flips; the rows, the columns and the undo stack
\* stay as they were
C13_ClickSetsAnchorAndSelection ==
    (lastOp.op = "toggle" /\ lastOp.arg \in {0, 1}) =>
        /\ lastClicked = Clicked
        /\ lastOp.arg = 0 => selected = {Clicked}
        /\ lastOp.arg = 1 =>
              /\ (Clicked \in selected) = (Clicked \notin before.selected)
              /\ selected \ {Clicked} = before.selected \ {Clicked}
        /\ rows = before.rows
        /\ columns = before.columns
        /\ undoStack = before.undoStack

\* C13 witness: a ctrl/cmd click took one row out of a selection of several
C13_ModifierClickDeselected ==
    /\ lastOp.op = "toggle"
    /\ lastOp.arg = 1
    /\ Clicked \notin selected
    /\ Cardinality(selected) >= 2

C16_SubRowsHaveParentBefore ==
    \A i \in 1..Len(rows) :
        /\ rows[i].sub <=> rows[i].parent # Null
        /\ rows[i].sub =>
              \E p \in 1..(i - 1) : ~rows[p].sub /\ rows[p].id = rows[i].parent

(***************************************************************************)
(* Migration of documents.                                                 *)
(*                                                                         *)
(* The three calls migrateColumnsIfNeeded(); migrateRowsIfNeeded();        *)
(* normalizeRows() as the import handler, loadSheetForUser() and           *)
(* renderTable() make them, applied to documents of every accepted shape.  *)
(***************************************************************************)
\* the columns a document is built from: bare strings (one of them empty),
\* canonical objects and objects with missing or empty fields
RawColumns ==
    << [string |-> "Task"],
       [string |-> ""],
       [name |-> "Task", type |-> "date", color |-> 3],
       [name |-> "Notes"],
       [name |-> "", type |-> "number", color |-> 5],
       [type |-> "tags"] >>

\* the rows a document is built from: bare lists, indexed objects (with and
\* without _id, with a gap in the keys), and objects with cells
RawRows ==
    << [array |-> <<>>],
       [array |-> <<7, 8, 9, 7>>],
       ("0" :> 7) @@ ("1" :> 8) @@ ("_id" :> 1),
       ("0" :> 7) @@ ("2" :> 9) @@ ("_sub" :> TRUE) @@ ("_parent" :> 1)
           @@ ("_collapsed" :> FALSE),
       [cells |-> <<7>>],
       [id |-> 2, cells |-> <<7, 8>>, sub |-> FALSE, parent |-> Null,
        collapsed |-> TRUE],
       [id |-> 3, cells |-> <<7, 8>>, sub |-> TRUE, parent |-> 2,
        collapsed |-> FALSE] >>

\* the lists of at most n entries of s, as lists of positions in s
Lists(s, n) == UNION {[1..k -> 1..Len(s)] : k \in 0..n}
ListOf(s, l) == [k \in 1..Len(l) |-> s[l[k]]]

\* the first branch of migrateColumnsIfNeeded() is given lists of strings
\* only: of an object it would make an object's name
Uniform(cols) ==
    (Len(cols) > 0 /\ IsString(cols[1])) =>
        \A k \in 1..Len(cols) : IsString(cols[k])

InitMigrate ==
    /\ \E c \in Lists(RawColumns, MaxRaw), r \in Lists(RawRows, MaxRaw) :
          /\ Uniform(ListOf(RawColumns, c))
          /\ columns = ListOf(RawColumns, c)
          /\ rows = ListOf(RawRows, r)
    /\ undoStack = <<>>
    /\ selected = {}
    /\ lastClicked = Null
    /\ dragState = NoDrag
    /\ nextId = Len(RawRows) + 1
    /\ idLimit = Len(RawRows) + 2 * MaxRaw
    /\ lastOp = [op |-> "init", index |-> Undefined, arg |-> Undefined, prev |-> ""]
    /\ before = NoSnapshot
    /\ prior = NoSnapshot
    /\ run = NoRun
    /\ evicted = {}
    /\ user = Null
    /\ data = InitialData
    /\ issued = {}
    /\ response = NoResponse
    /\ stepsLeft = Undefined

\* migrateColumnsIfNeeded(); migrateRowsIfNeeded(); normalizeRows();
migrate ==
    /\ columns' = migrateColumnsIfNeeded(columns)
    /\ rows' = normalizeRows(migrateRowsIfNeeded(rows, nextId),
                             migrateColumnsIfNeeded(columns))
    /\ nextId' = nextId + Issued(rows)
    /\ Note("migrate", Undefined, Issued(rows))
    /\ UNCHANGED <<undoStack, selected, lastClicked, dragState, idLimit, user, evicted>>

NextMigrate == migrate

SpecMigrate == InitMigrate /\ [][NextMigrate]_vars

\* the canonical shape: {name, type, color} with a name and a type,
\* {id, cells, sub, parent, collapsed} with an id and one cell per column
CanonicalColumn(c) ==
    /\ DOMAIN c = {"name", "type", "color"}
    /\ c.name # "" /\ c.type # ""
CanonicalRow(r, n) ==
    /\ DOMAIN r = {"id", "cells", "sub", "parent", "collapsed"}
    /\ r.id # Null /\ Len(r.cells) = n
    /\ r.sub \in BOOLEAN /\ r.collapsed \in BOOLEAN
CanonicalSheet ==
    /\ \A k \in 1..Len(columns) : CanonicalColumn(columns[k])
    /\ \A k \in 1..Len(rows) : CanonicalRow(rows[k], Len(columns))

\* C18: a migration that starts from a canonical sheet, or from the result
\* of a migration, changes no column and no row and issues no identifier
C18_MigrationIdempotent ==
    [][(lastOp'.op = "migrate" /\ (CanonicalSheet \/ lastOp.op = "migrate"))
          => (columns' = columns /\ rows' = rows /\ nextId' = nextId)]_vars

(***************************************************************************)
(* Columns and cells.                                                      *)
(***************************************************************************)
\* C14: after every handler (row operations, deletes, undo, column insert
\* and delete, load, import) every row of the sheet has exactly as many
\* cells as the sheet has columns
C14_CellsMatchColumns ==
    \A i \in 1..Len(rows) : Len(rows[i].cells) = Len(columns)

\* C14 witness: a row deleted before a column was inserted or deleted has
\* been restored by undo() with the number of cells it had then
C14_StaleRowRestored ==
    /\ lastOp.op = "undo"
    /\ before.undoStack # <<>>
    /\ Pushed(before.undoStack).type = "delete-rows"
    /\ \E k \in 1..Len(Pushed(before.undoStack).items) :
          Len(Pushed(before.undoStack).items[k].row.cells) # Len(columns)
    /\ Len(rows) > Len(before.rows)

\* C15: the sheet has at least one column in every reachable state, and
\* deleteColumn() on a one-column sheet leaves columns and rows as they were
C15_AtLeastOneColumn ==
    /\ Len(columns) >= 1
    /\ (lastOp.op = "deleteColumn" /\ before.valid /\ Len(before.columns) = 1) =>
          (columns = before.columns /\ rows = before.rows)

(***************************************************************************)
(* Row identifiers.                                                        *)
(***************************************************************************)
\* the identifiers of the rows of the sheet, then of the rows held in the
\* records of the undo stack, one entry per row
RECURSIVE RecordedIds(_)
RecordedIds(stack) ==
    IF stack = <<>> THEN <<>>
    ELSE IF Head(stack).type = "delete-rows"
         THEN [k \in 1..Len(Head(stack).items) |-> Head(stack).items[k].row.id]
              \o RecordedIds(Tail(stack))
         ELSE RecordedIds(Tail(stack))
HeldIds == [k \in 1..Len(rows) |-> rows[k].id] \o RecordedIds(undoStack)

\* C17: the identifiers of the rows of the sheet and of the rows held in
\* undo records are pairwise distinct, and none of them is the identifier
\* of a row whose record the stack has dropped
C17_RowIdsUnique ==
    /\ \A i, j \in 1..Len(HeldIds) : i # j => HeldIds[i] # HeldIds[j]
    /\ \A i \in 1..Len(HeldIds) : HeldIds[i] \notin evicted

(***************************************************************************)
(* Failed requests.                                                        *)
(***************************************************************************)
\* C20: a save or a load whose request failed (network error, non-OK
\* status, 401) leaves the rows and the columns of the sheet as they were
C20_FailedRequestKeepsSheet ==
    (lastOp.op \in {"saveSheetForUser", "loadSheetForUser"} /\ lastOp.arg # OK) =>
        (rows = before.rows /\ columns = before.columns)

(***************************************************************************)
(* The drag state machine.                                                 *)
(***************************************************************************)
\* C26: startDragRow on a sub-row leaves the drag state idle, on a non-sub
\* row it takes the state from idle to dragging on that row; it never
\* changes the rows, and onDragMove and onDragEnd run only while a drag is
\* in progress
C26_OnlyNonSubRowsDrag ==
    [][/\ lastOp'.op = "startDragRow" =>
            /\ ~dragState.active
            /\ rows' = rows
            /\ IF At(rows, lastOp'.index).sub
               THEN dragState' = NoDrag
               ELSE /\ dragState'.active
                    /\ dragState'.sourceIndex = lastOp'.index
       /\ lastOp'.op \in {"onDragMove", "onDragEnd"} =>
            (dragState.active /\ ~At(rows, dragState.sourceIndex).sub)]_vars

\* C26 witness: the drag handle of a sub-row was pressed while another row
\* exists that could be a drop target
C26_SubRowHandlePressed ==
    /\ lastOp.op = "startDragRow"
    /\ At(rows, lastOp.index).sub
    /\ ~dragState.active
    /\ Len(rows) >= 3

\* C27: a pointer move during a drag changes the target index of the drag
\* state and nothing else: rows, columns, selection, anchor and undo stack
\* are as before, and so is the dragged row
C27_MovesOnlySetTarget ==
    [][lastOp'.op = "onDragMove" =>
          /\ rows' = rows /\ columns' = columns
          /\ selected' = selected /\ lastClicked' = lastClicked
          /\ undoStack' = undoStack
          /\ dragState' = [dragState EXCEPT !.targetIndex = lastOp'.index]]_vars

\* C27 witness: during the drag of a row with a sub-row the pointer has moved
\* to a boundary where a drop would move the group
C27_MovedOverAnotherRow ==
    /\ lastOp.op = "onDragMove"
    /\ dragState.active
    /\ RunAfter(rows, dragState.sourceIndex, At(rows, dragState.sourceIndex).id) >= 1
    /\ destSheetIndex(rows, dragState.targetIndex) # Undefined
    /\ Drop(rows, dragState.sourceIndex,
            destSheetIndex(rows, dragState.targetIndex)) # rows

\* the rows old with the group of n + 1 rows at index s put before the row
\* that is drawn at visible index t, at the end when t is the number of
\* drawn rows
PlacedBefore(old, s, n, t) ==
    LET group == SubSeq(old, s + 1, s + 1 + n)
        rest  == Pick(old, IdsOf(group), FALSE)
    IN  IF t = Len(mapping(old)) THEN rest \o group
        ELSE LET p == PositionOf(rest, At(old, At(mapping(old), t)).id)
             IN  SubSeq(rest, 1, p - 1) \o group \o SubSeq(rest, p, Len(rest))

\* C30: a drop at a visible index t in 0..V that is not a row of the dragged
\* group puts the group right before the row drawn at t, and at the end of
\* the sheet when t = V
C30_DropLandsBeforeTarget ==
    (GroupDropped /\ lastOp.arg \in 0..Len(mapping(before.rows))) =>
        LET old == before.rows
            s == lastOp.index
            t == lastOp.arg
            n == RunAfter(old, s, At(old, s).id)
            inside == /\ t < Len(mapping(old))
                      /\ At(mapping(old), t) \in s..(s + n)
        IN  ~inside => rows = PlacedBefore(old, s, n, t)

(***************************************************************************)
(* Selection and deleted rows.                                             *)
(***************************************************************************)
\* C23: every selected id, and the anchor when it is set, is the id of a
\* row of the sheet; after deleteRowByIndex no removed row is still selected
C23_SelectionHoldsLiveRows ==
    /\ selected \subseteq IdsOf(rows)
    /\ lastClicked # Null => lastClicked \in IdsOf(rows)

(***************************************************************************)
(* Deleting the selected rows.                                             *)
(***************************************************************************)
\* the positions of the rows of old that deleteSelected is to remove: the
\* rows whose id is in sel and, after each of them, the run of sub-rows
\* whose parent it is
SelectedWithSubs(old, sel) ==
    {k \in 1..Len(old) :
        \/ old[k].id \in sel
        \/ \E p \in 1..(k - 1) :
              /\ old[p].id \in sel
              /\ \A m \in (p + 1)..k : old[m].sub /\ old[m].parent = old[p].id}

\* the rows of old at the positions in ks, and at the other positions
AtPositions(old, ks, keep) ==
    LET F[k \in 0..Len(old)] ==
            IF k = 0 THEN <<>>
            ELSE IF (k \in ks) = keep THEN Append(F[k - 1], old[k]) ELSE F[k - 1]
    IN  F[Len(old)]

\* C24: an accepted deleteSelected removes exactly the selected rows and
\* the run of sub-rows after each, keeps the other rows in their order,
\* pushes one delete-rows record that holds the removed rows, and leaves
\* the selection empty and the anchor unset; with nothing selected it
\* changes nothing
C24_DeleteSelectedRemovesSelection ==
    /\ (lastOp.op = "deleteSelected" /\ lastOp.arg = 1) =>
          LET gone == SelectedWithSubs(before.rows, before.selected)
          IN  /\ rows = AtPositions(before.rows, gone, FALSE)
              /\ Len(undoStack) = Len(before.undoStack) + 1
              /\ SubSeq(undoStack, 1, Len(before.undoStack)) = before.undoStack
              /\ Pushed(undoStack).type = "delete-rows"
              /\ [k \in 1..Len(Pushed(undoStack).items) |->
                     Pushed(undoStack).items[k].row]
                    = AtPositions(before.rows, gone, TRUE)
              /\ selected = {}
              /\ lastClicked = Null
    /\ (lastOp.op = "deleteSelected" /\ lastOp.arg = Undefined) =>
          /\ before.selected = {}
          /\ rows = before.rows /\ columns = before.columns
          /\ undoStack = before.undoStack
          /\ selected = {} /\ lastClicked = before.lastClicked

\* C24 witness: two rows were selected, one of them with a sub-row that was
\* not selected itself, and an unselected row stayed
C24_SelectedGroupsDeleted ==
    /\ lastOp.op = "deleteSelected" /\ lastOp.arg = 1
    /\ Cardinality(before.selected) >= 1
    /\ Cardinality(SelectedWithSubs(before.rows, before.selected))
          > Cardinality(before.selected)
    /\ rows # <<>>

(***************************************************************************)
(* The undo stack is a stack, and nothing is redone.                       *)
(***************************************************************************)
\* the rows held by an undo record, in the record's order
RecordRows(act) == [k \in 1..Len(act.items) |-> act.items[k].row]

\* the members of a sequence
Members(s) == {s[k] : k \in 1..Len(s)}

\* C25: undo() on an empty stack changes neither sheet, selection nor
\* stack; on a non-empty stack it removes the most recent record and no
\* other, brings back the rows of that record and no others and leaves the
\* selection alone; the stack otherwise changes only by the record a
\* confirmed delete pushes for the rows it removes itself, and rows leave
\* the sheet only in a confirmed delete: nothing is redone
C25_UndoPopsMostRecentOnly ==
    /\ (lastOp.op = "undo" /\ before.undoStack = <<>>) =>
          /\ rows = before.rows /\ columns = before.columns
          /\ selected = before.selected /\ lastClicked = before.lastClicked
          /\ undoStack = <<>>
    /\ (lastOp.op = "undo" /\ before.undoStack # <<>>) =>
          LET act == Pushed(before.undoStack)
          IN  /\ undoStack = SubSeq(before.undoStack, 1, Len(before.undoStack) - 1)
              /\ columns = before.columns
              /\ selected = before.selected /\ lastClicked = before.lastClicked
              /\ Len(rows) = Len(before.rows) + Len(act.items)
              /\ Pick(rows, RecordIds(act), FALSE) = before.rows
              /\ Members(Pick(rows, RecordIds(act), TRUE)) = Members(RecordRows(act))
    /\ (before.valid /\ lastOp.op # "undo") =>
          \/ undoStack = before.undoStack /\ IdsOf(before.rows) \subseteq IdsOf(rows)
          \/ /\ lastOp.op \in {"deleteRowByIndex", "deleteSelected"}
             /\ lastOp.arg = 1
             /\ undoStack = Append(before.undoStack, Pushed(undoStack))
             /\ RecordIds(Pushed(undoStack)) = IdsOf(before.rows) \ IdsOf(rows)
             /\ Members(RecordRows(Pushed(undoStack))) \subseteq Members(before.rows)

\* C25 witness: two deletes were taken back one after the other, the second
\* undo() popping the older record while the sheet held the rows of the
\* newer one again
C25_SecondUndoPopsOlderRecord ==
    /\ lastOp.op = "undo" /\ lastOp.prev = "undo"
    /\ prior.valid /\ Len(prior.undoStack) = 2
    /\ undoStack = <<>>
    /\ Len(rows) > Len(before.rows)

\* C25 witness, the empty stack: undo() was called with nothing to take back
\* on a sheet with a selection
C25_UndoOnEmptyStack ==
    lastOp.op = "undo" /\ before.valid /\ before.undoStack = <<>> /\ selected # {}

(***************************************************************************)
(* Handlers called with an index that names no row.                        *)
(***************************************************************************)
\* the handlers that take a row index and look the row up first
RowHandlers == {"addSubRow", "deleteRowByIndex", "duplicateRow", "startDragRow"}

\* C22: addSubRow, deleteRowByIndex, duplicateRow and startDragRow called
\* with an index outside 0..rows.length-1 leave the rows, the columns, the
\* undo stack, the selection, the anchor and the drag state as they were
C22_MissingRowIsNoOp ==
    [][(lastOp'.op \in RowHandlers /\ lastOp'.index \notin Indexes(rows)) =>
          /\ rows' = rows /\ columns' = columns
          /\ undoStack' = undoStack
          /\ selected' = selected /\ lastClicked' = lastClicked
          /\ dragState' = dragState
          /\ nextId' = nextId]_vars

\* C22 witness: addSubRow was called with the index just past the last row
\* of a sheet that has a selection and an undo record
C22_SubRowForMissingParent ==
    /\ lastOp.op = "addSubRow" /\ lastOp.index = Len(before.rows)
    /\ rows # <<>> /\ selected # {} /\ undoStack # <<>>

\* C22 witnesses for the other three handlers: each was called with an
\* index that names no row, below zero or past the end
C22_DeleteForMissingRow ==
    lastOp.op = "deleteRowByIndex" /\ lastOp.index = -1 /\ rows # <<>>

C22_DuplicateForMissingRow ==
    lastOp.op = "duplicateRow" /\ lastOp.index = Len(before.rows) + 1 /\ rows # <<>>

C22_DragForMissingRow ==
    lastOp.op = "startDragRow" /\ lastOp.index = Len(before.rows) /\ selected # {}

(***************************************************************************)
(* Imports that fail.                                                      *)
(***************************************************************************)
\* every column and every row has the migrated shape, and every row has a
\* cell per column
Migrated ==
    /\ \A k \in 1..Len(columns) : DOMAIN columns[k] = {"name", "type", "color"}
    /\ \A k \in 1..Len(rows) :
          /\ DOMAIN rows[k] = {"id", "cells", "sub", "parent", "collapsed"}
          /\ Len(rows[k].cells) = Len(columns)

\* the sheet, the undo stack, the selection and the anchor are those of
\* before the handler
Untouched ==
    /\ columns = before.columns /\ rows = before.rows
    /\ undoStack = before.undoStack
    /\ selected = before.selected /\ lastClicked = before.lastClicked

\* C21: an import that ends with 'Import error' leaves sheet, undo stack
\* and selection as they were, and after any import the sheet is either the
\* one from before or a completely migrated one
C21_FailedImportLeavesSheet ==
    lastOp.op = "importFile" =>
        /\ lastOp.arg = 0 => Untouched
        /\ Untouched \/ Migrated

\* the part of C21 about the two required fields: a document without
\* columns or without rows changes nothing (it is the only import that
\* leaves nextId, the sheet and the selection alone while showing the error)
C21_MissingFieldRefused ==
    (lastOp.op = "importFile" /\ lastOp.arg = 0 /\ ~MigrationThrows(rows)) => Untouched

(***************************************************************************)
(* The server: who reads and writes a sheet, who manages the users.        *)
(***************************************************************************)
\* the stored sheet of a user in the files d: the content of the user's
\* file, null when there is none
StoredSheet(d, username) ==
    IF UserFile(username) \in DOMAIN d THEN d[UserFile(username)] ELSE JNull

\* the users of the table in the files d
Registered(d) == DOMAIN loadUsers(d) \cap Usernames

\* the last request carried a token the server signed
ValidToken == response.token.header /\ response.token.signed

\* the last request was to /api/sheet/:username
SheetRequest == response.op \in {"GET sheet", "POST sheet"}

\* the last request was to /api/admin/...
AdminRequest == response.op \in {"admin/users", "admin/delete-user"}

\* C28: a sheet request without a valid token is answered 401 and one with
\* another user's token 403, and neither changes a file; the stored sheet
\* of a registered user changes only by that user's own POST (or when an
\* admin deletes the user); a GET returns the stored sheet, and the sheet
\* a user saved last is what the user's next GET returns
C28_SheetOnlyForOwner ==
    /\ (SheetRequest /\ ~ValidToken) =>
          (response.status = Unauthorized /\ data = response.data)
    /\ (SheetRequest /\ ValidToken
          /\ response.token.username # response.request.username) =>
          (response.status = Forbidden /\ data = response.data)
    /\ \A u \in Registered(response.data) :
          StoredSheet(data, u) # StoredSheet(response.data, u) =>
              \/ /\ response.op = "POST sheet" /\ ValidToken
                 /\ response.token.username = u
                 /\ response.request.username = u
              \/ /\ response.op = "admin/delete-user" /\ ValidToken
                 /\ response.token.username = "admin"
                 /\ response.request.username = u
    /\ (response.op = "GET sheet" /\ response.status = OK) =>
          LET u == response.token.username
          IN  /\ response.body.sheet = StoredSheet(data, u)
              /\ response.saved[u] # JNull => response.body.sheet = response.saved[u]

\* the parts of C28 about the answers: 401, 403 and no file written
C28_RefusedSheetRequests ==
    /\ (SheetRequest /\ ~ValidToken) =>
          (response.status = Unauthorized /\ data = response.data)
    /\ (SheetRequest /\ ValidToken
          /\ response.token.username # response.request.username) =>
          (response.status = Forbidden /\ data = response.data)

\* C29: an admin request without a valid token of 'admin' is answered 401
\* or 403 and leaves the files alone; no request removes 'admin' from the
\* user table; a delete-user that succeeds removes that user's entry and
\* stored sheet and leaves every other user's entry and stored sheet as
\* they were
C29_UsersManagedByAdminOnly ==
    /\ (AdminRequest /\ ~(ValidToken /\ response.token.username = "admin")) =>
          (response.status \in {Unauthorized, Forbidden} /\ data = response.data)
    /\ "admin" \in Registered(response.data) => "admin" \in Registered(data)
    /\ (response.op = "admin/delete-user" /\ response.status = OK) =>
          LET gone == response.request.username
          IN  /\ gone \notin Registered(data)
              /\ StoredSheet(data, gone) = JNull
              /\ \A u \in Registered(response.data) \ {gone} :
                    /\ u \in Registered(data)
                    /\ loadUsers(data)[u] = loadUsers(response.data)[u]
                    /\ StoredSheet(data, u) = StoredSheet(response.data, u)

\* the part of C29 about the answers: 401 or 403 and no file written
C29_RefusedAdminRequests ==
    (AdminRequest /\ ~(ValidToken /\ response.token.username = "admin")) =>
        (response.status \in {Unauthorized, Forbidden} /\ data = response.data)

(***************************************************************************)
(* A drag with other handlers between its start and the drop.              *)
(***************************************************************************)
\* the ids of the group of the row with identifier id in rs: the row and
\* the run of its sub-rows after it; empty when rs holds no such row
GroupOf(rs, id) ==
    LET is == {i \in Indexes(rs) : At(rs, i).id = id}
    IN  IF is = {} THEN {}
        ELSE LET s == CHOOSE i \in is : \A j \in is : i <= j
             IN  {At(rs, s + k).id : k \in 0..RunAfter(rs, s, id)}

\* C31: a drop that changes sheet.rows moves the group of the row the drag
\* started on and nothing else: that row is still on the sheet, the rows
\* outside its group keep their order, and no sub-row changes position
\* without its parent
C31_DropMovesStartedGroup ==
    [][(lastOp'.op = "onDragEnd" /\ rows' # rows) =>
          LET G == GroupOf(rows, dragState.sourceRow)
          IN  /\ G # {}
              /\ Pick(rows', G, FALSE) = Pick(rows, G, FALSE)
              /\ Pick(rows', G, TRUE) = Pick(rows, G, TRUE)]_vars

\* the same statement for the drags during which no other handler ran: the
\* row at the start index is still the row the drag started on
C31_UndisturbedDropMovesGroup ==
    [][(/\ lastOp'.op = "onDragEnd" /\ rows' # rows
        /\ At(rows, dragState.sourceIndex).id = dragState.sourceRow) =>
          LET G == GroupOf(rows, dragState.sourceRow)
          IN  /\ G # {}
              /\ Pick(rows', G, FALSE) = Pick(rows, G, FALSE)
              /\ Pick(rows', G, TRUE) = Pick(rows, G, TRUE)]_vars

(***************************************************************************)
(* The four projections of the visible sequence.                           *)
(***************************************************************************)
\* renderTable's map: collapsed[r.id] = !!r.collapsed for the rows with
\* !r.sub && r.id, a later row overwriting an earlier one
RenderCollapsed(rs, pid) ==
    LET is == {i \in 1..Len(rs) : ~rs[i].sub /\ rs[i].id # Null /\ rs[i].id = pid}
    IN  is # {} /\ rs[CHOOSE i \in is : \A j \in is : j <= i].collapsed

\* renderTable's loop with a fault: a sub-row is skipped when any row above
\* it is collapsed
RenderedIndexesBelowCollapsed(rs, i) ==
    [k \in 1..Cardinality({j \in 1..Len(rs) :
                              ~(rs[j].sub /\ \E m \in 1..(j - 1) : rs[m].collapsed)}) |->
        (CHOOSE j \in 1..Len(rs) :
            /\ ~(rs[j].sub /\ \E m \in 1..(j - 1) : rs[m].collapsed)
            /\ Cardinality({n \in 1..j :
                   ~(rs[n].sub /\ \E m \in 1..(n - 1) : rs[m].collapsed)}) = k) - 1]

\* renderTable's loop from sheet index i on: the sheet indexes of the rows
\* that get a table row, in order
RECURSIVE RenderedIndexes(_, _)
RenderedIndexes(rs, i) ==
    IF i >= Len(rs) THEN <<>>
    ELSE IF At(rs, i).sub /\ At(rs, i).parent # Null
            /\ RenderCollapsed(rs, At(rs, i).parent)
         THEN RenderedIndexes(rs, i + 1)
         ELSE <<i>> \o RenderedIndexes(rs, i + 1)

\* computeHierNumber's list `visible` from sheet index i on: the rows pushed
RECURSIVE NumberedRows(_, _)
NumberedRows(rs, i) ==
    IF i >= Len(rs) THEN <<>>
    ELSE IF At(rs, i).sub /\ At(rs, i).parent # Null
            /\ CollapsedMap(rs, At(rs, i).parent)
         THEN NumberedRows(rs, i + 1)
         ELSE <<At(rs, i)>> \o NumberedRows(rs, i + 1)

\* mapVisibleRowToSheetIndex's loop at sheet index i with counter vi:
\* the index at which vi reaches visibleIdx, Undefined for null
RECURSIVE MapScan(_, _, _, _)
MapScan(rs, i, vi, visibleIdx) ==
    IF i >= Len(rs) THEN Undefined
    ELSE IF At(rs, i).sub /\ At(rs, i).parent # Null
            /\ CollapsedMap(rs, At(rs, i).parent)
         THEN MapScan(rs, i + 1, vi, visibleIdx)
         ELSE IF vi + 1 = visibleIdx THEN i
         ELSE MapScan(rs, i + 1, vi + 1, visibleIdx)

\* a row is left out by the specification's filter: a sub-row whose parent
\* is a collapsed non-sub row
Filtered(rs, i) ==
    /\ At(rs, i).sub
    /\ \E j \in Indexes(rs) :
          ~At(rs, j).sub /\ At(rs, j).id = At(rs, i).parent /\ At(rs, j).collapsed

\* C32: the rows renderTable draws, the rows computeHierNumber numbers, the
\* rows mapVisibleRowToSheetIndex counts and the mapping of onDragEnd are
\* the same sequence, the rows that are not sub-rows of a collapsed non-sub
\* row; so every visible index maps to the sheet index of the row drawn at
\* that position, and an index past the drawn rows maps to no row
C32_ProjectionsAgree ==
    LET drawn == RenderedIndexes(rows, 0)
    IN  /\ drawn = mapping(rows)
        /\ NumberedRows(rows, 0) = [k \in 1..Len(drawn) |-> At(rows, drawn[k])]
        /\ \A v \in 0..Len(rows) :
              MapScan(rows, 0, -1, v)
                 = IF v < Len(drawn) THEN At(drawn, v) ELSE Undefined
        /\ \A i \in Indexes(rows) :
              Filtered(rows, i) <=> (\A k \in 1..Len(drawn) : drawn[k] # i)

\* C32 witness: a collapsed row's sub-row is not drawn and a row after it
\* is, so that row's visible index is smaller than its sheet index
C32_DrawnRowAfterHiddenRow ==
    \E i \in Indexes(rows) :
        /\ Filtered(rows, i)
        /\ i + 1 \in Indexes(rows)
        /\ ~At(rows, i + 1).sub
        /\ MapScan(rows, 0, -1, i) = i + 1

(***************************************************************************)
(* Column operations and the cells.                                        *)
(***************************************************************************)
\* sequence s without its element at 0-based position i
Minus(s, i) == SubSeq(s, 1, i) \o SubSeq(s, i + 2, Len(s))

\* C33: an accepted insertColumnAt(i) adds one column at position i and one
\* empty cell at position i of every row, deleteColumn(i) on two or more
\* columns removes column i and cell i of every row, and the other columns
\* and every other cell of every row are as before, in their order; a
\* cancelled prompt and a delete of the only column change nothing
C33_ColumnOpsKeepCells ==
    /\ (lastOp.op = "insertColumnAt" /\ lastOp.arg = 1) =>
          LET i == lastOp.index
          IN  /\ Len(columns) = Len(before.columns) + 1
              /\ Minus(columns, i) = before.columns
              /\ Len(rows) = Len(before.rows)
              /\ \A k \in 1..Len(rows) :
                    /\ Len(rows[k].cells) = Len(before.rows[k].cells) + 1
                    /\ At(rows[k].cells, i) = EmptyCell
                    /\ [rows[k] EXCEPT !.cells = Minus(@, i)] = before.rows[k]
    /\ (lastOp.op = "deleteColumn" /\ lastOp.arg = 1) =>
          LET i == lastOp.index
          IN  /\ Len(before.columns) >= 2
              /\ columns = Minus(before.columns, i)
              /\ Len(rows) = Len(before.rows)
              /\ \A k \in 1..Len(rows) :
                    rows[k] = [before.rows[k] EXCEPT !.cells = Minus(@, i)]
    /\ (lastOp.op \in {"insertColumnAt", "deleteColumn"} /\ lastOp.arg = 0) =>
          (columns = before.columns /\ rows = before.rows)
    /\ (lastOp.op = "deleteColumn" /\ lastOp.arg = 0) => Len(before.columns) <= 1

\* C33 witness: a column was inserted before a column under which a row
\* holds a value, and the value moved along with its column
C33_ColumnInsertedBeforeValue ==
    /\ lastOp.op = "insertColumnAt" /\ lastOp.arg = 1
    /\ \E k \in 1..Len(rows) :
          /\ At(before.rows[k].cells, lastOp.index) # EmptyCell
          /\ At(rows[k].cells, lastOp.index + 1) = At(before.rows[k].cells, lastOp.index)

\* C33 witness for deleteColumn: a column before a column with a value was
\* deleted and the value is now one position to the left
C33_ColumnDeletedBeforeValue ==
    /\ lastOp.op = "deleteColumn" /\ lastOp.arg = 1
    /\ \E k \in 1..Len(rows) :
          /\ lastOp.index + 1 < Len(before.rows[k].cells)
          /\ At(before.rows[k].cells, lastOp.index + 1) # EmptyCell
          /\ At(rows[k].cells, lastOp.index) = At(before.rows[k].cells, lastOp.index + 1)

(***************************************************************************)
(* Adding a sub-row.                                                       *)
(***************************************************************************)
\* C34: addSubRow(i) on an existing row puts exactly one new row at sheet
\* index i + 1, ahead of the sub-rows the parent already has: a sub-row of the
\* row at i, expanded, with one cell per column; the rows that were there are
\* unchanged and in their order, and the undo stack is as it was
C34_AddSubRowInsertsBelowParent ==
    (lastOp.op = "addSubRow" /\ lastOp.index \in Indexes(before.rows)) =>
        LET i == lastOp.index
            s == At(rows, i + 1)
        IN  /\ Len(rows) = Len(before.rows) + 1
            /\ Minus(rows, i + 1) = before.rows
            /\ s.sub
            /\ s.parent = At(before.rows, i).id
            /\ ~s.collapsed
            /\ Len(s.cells) = Len(columns)
            /\ columns = before.columns
            /\ undoStack = before.undoStack

\* C34 witness: the parent already had a sub-row, and the new sub-row is
\* between the parent and that sub-row
C34_SubRowAddedAheadOfSibling ==
    /\ lastOp.op = "addSubRow"
    /\ lastOp.index + 1 \in Indexes(before.rows)
    /\ At(before.rows, lastOp.index + 1).sub
    /\ At(before.rows, lastOp.index + 1).parent = At(before.rows, lastOp.index).id
    /\ At(rows, lastOp.index + 2) = At(before.rows, lastOp.index + 1)
    /\ At(rows, lastOp.index + 1).parent = At(rows, lastOp.index).id

(***************************************************************************)
(* Undo after other operations.                                            *)
(***************************************************************************)
\* the row at position k of rs belongs to the group of parent pid
InGroup(rs, k, pid) ==
    \/ ~rs[k].sub /\ rs[k].id = pid
    \/ rs[k].sub /\ rs[k].parent = pid

\* the row at position k of rs is in place: a sub-row directly follows its
\* parent or a sub-row of its parent, and the row is not between a row of
\* another group and a sub-row of that group
InPlace(rs, k) ==
    /\ rs[k].sub => (k > 1 /\ InGroup(rs, k - 1, rs[k].parent))
    /\ (k < Len(rs) /\ rs[k + 1].sub) => InGroup(rs, k, rs[k + 1].parent)

\* the undo() that ran last popped a record
UndoRestored == lastOp.op = "undo" /\ before.valid /\ before.undoStack # <<>>

\* C35: after an undo() on a sheet whose groups were intact, every restored
\* row is in place, whatever ran between the delete and the undo
C35_UndoKeepsGroupsIntact ==
    (UndoRestored /\ Contiguous(before.rows)) =>
        \A k \in 1..Len(rows) :
            rows[k].id \in RecordIds(Pushed(before.undoStack)) => InPlace(rows, k)

\* C35 for the records of one row that is not a sub-row: after a delete of
\* a row without sub-rows, other handlers and the undo, the restored row is
\* not inside another row's group
C35_RestoredRowOutsideOtherGroups ==
    (/\ UndoRestored
     /\ Contiguous(before.rows)
     /\ Len(Pushed(before.undoStack).items) = 1
     /\ ~Pushed(before.undoStack).items[1].row.sub) =>
        \A k \in 1..Len(rows) :
            rows[k].id \in RecordIds(Pushed(before.undoStack)) => InPlace(rows, k)

\* C35 without a handler in between: undo() directly after a delete of one
\* row that has no sub-rows leaves the restored row in place
C35_ImmediateUndoOfSingleRow ==
    (/\ UndoRestored
     /\ Contiguous(before.rows)
     /\ lastOp.prev = "deleteRowByIndex"
     /\ prior.valid /\ before.undoStack # prior.undoStack
     /\ Contiguous(prior.rows)
     /\ Len(Pushed(before.undoStack).items) = 1) =>
        \A k \in 1..Len(rows) :
            rows[k].id \in RecordIds(Pushed(before.undoStack)) => InPlace(rows, k)

(***************************************************************************)
(* Logout and the undo stack.                                              *)
(***************************************************************************)
\* doLogout() leaves the default columns and no rows
C36_LogoutResetsSheet ==
    lastOp.op = "doLogout" =>
        (columns = LoggedOut.columns /\ rows = <<>> /\ user = Null)

\* C36 with loads and imports: an undo() that follows a logout, a load or an
\* import brings no row into the sheet
C36_NoRowCrossesLogout ==
    /\ C36_LogoutResetsSheet
    /\ (lastOp.op = "undo" /\ lastOp.prev \in {"doLogout", "loadSheetForUser", "importFile"})
          => rows = before.rows

\* C36: no row of the session before a logout enters the sheet afterwards:
\* after the undo() that follows doLogout() the sheet still has no rows
C36_UndoAfterLogoutRestoresNothing ==
    (lastOp.op = "undo" /\ lastOp.prev = "doLogout") => rows = <<>>

(***************************************************************************)
(* Passwords and tokens.                                                   *)
(***************************************************************************)
\* the last request carried a token the server signed for username
AuthorisedFor(username) == ValidToken /\ response.token.username = username

\* the last request replaced the stored password of the registered user username
PasswordReplaced(username) ==
    /\ username \in Registered(response.data) \cap Registered(data)
    /\ loadUsers(data)[username] # loadUsers(response.data)[username]

\* the stored password of a user changes only in a request that carries a
\* token of that user
C37_PasswordsChangeWithAuthorisation ==
    \A u \in Usernames : PasswordReplaced(u) => AuthorisedFor(u)

\* C37: a client without a token for user u cannot obtain one without the
\* password u has: when a request that carried no token of u has replaced
\* u's password and no token of u was ever issued, the login as u that
\* follows is not answered with a token
C37_NoTokenWithoutAuthorisation ==
    [][\A u \in Usernames :
          (/\ response.op = "reset-password" /\ response.status = OK
           /\ response.request.username = u
           /\ PasswordReplaced(u)
           /\ ~AuthorisedFor(u)
           /\ u \notin issued
           /\ response'.op = "login"
           /\ response'.request.username = u) => response'.status # OK]_vars

(***************************************************************************)
(* The drag state returns to idle.                                         *)
(***************************************************************************)
\* C38: dragState is non-null only between an accepted startDragRow and the
\* next mouseup: it becomes non-null in startDragRow alone, every onDragEnd
\* leaves it null, and an onDragEnd without a pointer move before it leaves
\* the rows as they were
C38_DragReturnsToIdle ==
    [][/\ (dragState'.active /\ ~dragState.active) => lastOp'.op = "startDragRow"
       /\ lastOp'.op = "onDragEnd" =>
            /\ dragState.active
            /\ dragState' = NoDrag
            /\ dragState.targetIndex = Undefined => rows' = rows]_vars

\* the drag state is non-null while no mouseup listener is attached
C38_StuckDragState == dragState.active /\ ~dragState.listening

====
